---------------------------- MODULE Spec2Model ----------------------------
(***************************************************************************)
(* nl-verkeer: the /api/events route (cache and fallback orchestrator,     *)
(* filter/sort query engine) and the NDW / ANWB ingestion pipeline behind  *)
(* it, as a state machine.                                                 *)
(*                                                                         *)
(* Conventions.                                                            *)
(*  - An optional value (T | undefined) is a sequence: <<>> when absent,   *)
(*    <<v>> when present.                                                  *)
(*  - A JavaScript string that the code inspects character by character    *)
(*    (road codes, comments, durations) is a sequence of one-character     *)
(*    strings; strings that are only compared or passed on are TLA+        *)
(*    strings.                                                             *)
(*  - Time is in milliseconds (Date.now()).                                *)
(*  - lengthKm is kept in thousandths of a kilometre (an integer), so that *)
(*    15.4 km is 15400.                                                    *)
(***************************************************************************)
EXTENDS Integers, Sequences, FiniteSets, TLC

(***************************** bounds *************************************)
\* Total number of requests issued in one behaviour.
MaxRequests == 3
MaxAbandoned == 1

(***************************** basics *************************************)
None == <<>>
Some(v) == <<v>>
IsSome(o) == o /= <<>>
Val(o) == o[1]

\* Math.round(a / b) for b > 0: floor(a/b + 1/2).
RoundDiv(a, b) == (2 * a + b) \div (2 * b)

Max2(a, b) == IF a >= b THEN a ELSE b
Min2(a, b) == IF a <= b THEN a ELSE b

Digits == {"0", "1", "2", "3", "4", "5", "6", "7", "8", "9"}

DigitVal(c) ==
  CASE c = "0" -> 0 [] c = "1" -> 1 [] c = "2" -> 2 [] c = "3" -> 3
    [] c = "4" -> 4 [] c = "5" -> 5 [] c = "6" -> 6 [] c = "7" -> 7
    [] c = "8" -> 8 [] c = "9" -> 9

\* String.prototype.toUpperCase on the letters the feeds use.
UpperChar(c) ==
  CASE c = "a" -> "A" [] c = "n" -> "N" [] c = "p" -> "P" [] c = "t" -> "T"
    [] c = "h" -> "H" [] c = "m" -> "M" [] c = "s" -> "S" [] OTHER -> c

ToUpper(s) == [i \in 1..Len(s) |-> UpperChar(s[i])]

IsSpace(c) == c = " "

\* \w of a JavaScript regular expression.
IsWordChar(c) ==
  c \in Digits \cup {"A", "N", "a", "n", "P", "T", "H", "M", "S", "p", "t",
                     "h", "m", "s", "x", "X", "_"}

RECURSIVE StripSpaces(_)
\* s.replace(/\s+/g, '')
StripSpaces(s) ==
  IF s = <<>> THEN <<>>
  ELSE IF IsSpace(Head(s)) THEN StripSpaces(Tail(s))
  ELSE <<Head(s)>> \o StripSpaces(Tail(s))

RECURSIVE TrimLeft(_)
TrimLeft(s) == IF s /= <<>> /\ IsSpace(Head(s)) THEN TrimLeft(Tail(s)) ELSE s

RECURSIVE TrimRight(_)
TrimRight(s) ==
  IF s /= <<>> /\ IsSpace(s[Len(s)]) THEN TrimRight(SubSeq(s, 1, Len(s) - 1)) ELSE s

\* String.prototype.trim
Trim(s) == TrimRight(TrimLeft(s))

AllDigits(s) == \A i \in 1..Len(s) : s[i] \in Digits

RECURSIVE DigitsToNat(_)
\* Number(s) for a non-empty string of decimal digits.
DigitsToNat(s) ==
  IF s = <<>> THEN 0
  ELSE 10 * DigitsToNat(SubSeq(s, 1, Len(s) - 1)) + DigitVal(s[Len(s)])

\* Number(s): a finite number for a string of digits (the empty string is 0),
\* NaN (absent) for any other string of the model's alphabet.
NumberOf(s) == IF AllDigits(Trim(s)) THEN Some(DigitsToNat(Trim(s))) ELSE None

\* asNumber (ndw.ts): a finite number, or undefined; the empty string is undefined.
asNumber(s) == IF Trim(s) = <<>> THEN None ELSE NumberOf(s)

\* Length of the run of digits of s that starts at position i.
RECURSIVE DigitRun(_, _)
DigitRun(s, i) ==
  IF i <= Len(s) /\ s[i] \in Digits THEN 1 + DigitRun(s, i + 1) ELSE 0

(************************ program constants ********************************)
CACHE_TTL_MS == 2 * 60 * 1000
LOAD_TIMEOUT_MS_Doubled == 2 * 8000
LOAD_TIMEOUT_MS == 8000
VILD_CACHE_TTL_MS == 7 * 24 * 60 * 60 * 1000
MEASUREMENT_SITE_CACHE_TTL_MS == 7 * 24 * 60 * 60 * 1000
MAX_JAMS == 200
MS_FETCH_ATTEMPTS == 3

(************************ Map<K, V> ****************************************)
EmptyMap == [k \in {} |-> None]
MapHas(m, k) == k \in DOMAIN m
MapGet(m, k) == IF k \in DOMAIN m THEN Some(m[k]) ELSE None
MapSet(m, k, v) == [x \in (DOMAIN m) \cup {k} |-> IF x = k THEN v ELSE m[x]]

(************************ results of async operations **********************)
\* A settled promise: fulfilled with a value, or rejected with an Error message.
Fulfilled(v) == [ok |-> TRUE, value |-> v, err |-> ""]
Rejected(msg) == [ok |-> FALSE, value |-> <<>>, err |-> msg]

(************************ location table (VILD) ****************************)
\* /^(A|N)\d{1,3}$/i
IsRoadShape13(s) ==
  /\ Len(s) \in 2..4
  /\ UpperChar(s[1]) \in {"A", "N"}
  /\ AllDigits(Tail(s))

\* /^(A|N)\d+$/i
IsRoadShapeAny(s) ==
  /\ Len(s) >= 2
  /\ UpperChar(s[1]) \in {"A", "N"}
  /\ AllDigits(Tail(s))

\* The rows of the downloaded DBF table (LOC_NR, ROADNUMBER).
VildRows ==
  << [loc |-> 7200, road |-> <<"A", "1", "0">>],
     [loc |-> 7300, road |-> <<" ", "n", "3", "5">>],
     [loc |-> 7400, road |-> <<"x", "9">>],
     [loc |-> 0,    road |-> <<"A", "2">>] >>

\* The loop over the DBF records of getVildRoadMap.
BuildVildMap(rows) ==
  LET F[i \in 0..Len(rows)] ==
        IF i = 0 THEN EmptyMap
        ELSE LET r == rows[i]
                 road == StripSpaces(ToUpper(Trim(r.road)))
             IN IF r.loc /= 0 /\ road /= <<>> /\ IsRoadShape13(road)
                  THEN MapSet(F[i - 1], r.loc, road)
                  ELSE F[i - 1]
  IN F[Len(rows)]

\* getVildRoadMap: vc is __nlVerkeerVildCache, up tells whether the download,
\* extraction and read of the table succeed.  The result carries the map and the
\* cache as the call leaves it.
getVildRoadMap(vc, now, up) ==
  IF IsSome(vc) /\ now - Val(vc).fetchedAt < VILD_CACHE_TTL_MS
    THEN [ok |-> TRUE, map |-> Val(vc).roadBySpecificLocation, err |-> "", vild |-> vc]
  ELSE IF ~up
    THEN [ok |-> FALSE, map |-> EmptyMap, err |-> "Failed to fetch VILD6.13.A.zip: 503",
          vild |-> vc]
  ELSE LET m == BuildVildMap(VildRows)
       IN [ok |-> TRUE, map |-> m, err |-> "",
           vild |-> Some([fetchedAt |-> now, roadBySpecificLocation |-> m])]

(************************ DATEX record extraction **************************)
\* The match of /\b([AN]\s?\d{1,3})\b/i that starts at position i of s: the
\* position of its last character, or 0 when there is none.
RoadMatchEnd(s, i) ==
  LET boundaryBefore == i = 1 \/ ~IsWordChar(s[i - 1])
      BoundaryAfter(e) == e = Len(s) \/ ~IsWordChar(s[e + 1])
      \* the digits start at d; the greedy \d{1,3} backs off until \b holds
      DigitsEnd(d) ==
        LET run == Min2(DigitRun(s, d), 3)
            ok == {n \in 1..run : BoundaryAfter(d + n - 1)}
        IN IF ok = {} THEN 0
           ELSE d + (CHOOSE n \in ok : \A k \in ok : k <= n) - 1
  IN IF ~(i <= Len(s) /\ UpperChar(s[i]) \in {"A", "N"} /\ boundaryBefore) THEN 0
     ELSE IF i + 1 <= Len(s) /\ IsSpace(s[i + 1]) THEN DigitsEnd(i + 2)
     ELSE DigitsEnd(i + 1)

\* comment?.match(/\b([AN]\s?\d{1,3})\b/i): group 1 of the leftmost match
\* with its whitespace removed, upper-cased.
RoadFromComment(s) ==
  LET starts == {i \in 1..Len(s) : RoadMatchEnd(s, i) /= 0}
  IN IF starts = {} THEN None
     ELSE LET i == CHOOSE k \in starts : \A j \in starts : k <= j
          IN Some(ToUpper(StripSpaces(SubSeq(s, i, RoadMatchEnd(s, i)))))

\* Strategies 1 and 2 of parseRoadCodeFromSituationRecord, which need no table.
RoadCodeWithoutTable(sr) ==
  IF IsSome(sr.roadName) /\ Val(sr.roadName) /= <<>>
     /\ IsRoadShapeAny(Trim(Val(sr.roadName)))
    THEN Some(ToUpper(Trim(Val(sr.roadName))))
  ELSE IF IsSome(sr.comment) THEN RoadFromComment(Val(sr.comment))
  ELSE None

\* Whether parseRoadCodeFromSituationRecord calls getVildRoadMap for sr.
NeedsVild(sr) == RoadCodeWithoutTable(sr) = None /\ sr.locs /= <<>>

\* Strategy 3: the first collected location code the table knows.
RoadFromLocations(locs, roadMap) ==
  LET hits == {i \in 1..Len(locs) : MapHas(roadMap, locs[i])}
  IN IF hits = {} THEN None
     ELSE Some(roadMap[locs[CHOOSE i \in hits : \A j \in hits : i <= j]])

\* parseRoadCodeFromSituationRecord, given the table it obtained (if it asked).
\* collectSpecificLocationsDeep on the location reference of a record, given as
\* the location objects under it in document order, one code each: the
\* traversal pushes the children on a stack and pops them, so the codes come out
\* last child first.
collectSpecificLocationsDeep(locs) ==
  [i \in 1..Len(locs) |-> locs[Len(locs) - i + 1]]

\* The location table looked up before the road name and the comment.
parseRoadCodeFromSituationRecord_TableFirst(sr, roadMap) ==
  IF RoadFromLocations(collectSpecificLocationsDeep(sr.locs), roadMap) /= None
    THEN RoadFromLocations(collectSpecificLocationsDeep(sr.locs), roadMap)
  ELSE RoadCodeWithoutTable(sr)

parseRoadCodeFromSituationRecord(sr, roadMap) ==
  IF RoadCodeWithoutTable(sr) /= None THEN RoadCodeWithoutTable(sr)
  ELSE RoadFromLocations(collectSpecificLocationsDeep(sr.locs), roadMap)

categoryFromType(typeRaw, feedHint) ==
  IF feedHint = "actueel_beeld" THEN "jam" ELSE "accident"

\* parseLengthKm: metres (text) to km rounded to one decimal, in thousandths of km.
parseLengthKm(sr) ==
  IF sr.lengthM = None THEN None
  ELSE LET n == NumberOf(Val(sr.lengthM))
       IN IF n = None \/ Val(n) = 0 THEN None
          ELSE Some(RoundDiv(Val(n), 100) * 100)

\* The leftmost match of /PT(?:(\d+)H)?(?:(\d+)M)?(?:(\d+)S)?/ in s: the three
\* captured numbers (0 for a group that did not take part), or None.
DurationMatch(s) ==
  LET starts == {i \in 1..Len(s) - 1 : s[i] = "P" /\ s[i + 1] = "T"}
  IN IF starts = {} THEN None
     ELSE
       LET p0 == (CHOOSE k \in starts : \A j \in starts : k <= j) + 2
           \* an optional group (\d+)X at p: <<value, next position>>
           Group(p, x) ==
             LET n == DigitRun(s, p)
             IN IF n > 0 /\ p + n <= Len(s) /\ s[p + n] = x
                  THEN <<DigitsToNat(SubSeq(s, p, p + n - 1)), p + n + 1>>
                  ELSE <<0, p>>
           h == Group(p0, "H")
           m == Group(h[2], "M")
           sec == Group(m[2], "S")
       IN Some([h |-> h[1], min |-> m[1], s |-> sec[1]])

\* A JavaScript number.
NumberValue(n) == [isNumber |-> TRUE, text |-> <<>>, num |-> n]

\* The value xmlParser() gives the text of an element: with parseTagValue: false
\* the text itself, a string, whatever it spells.
TagValue(text) == [isNumber |-> FALSE, text |-> text, num |-> 0]

\* parseDelayMin on the value of the duration element: a number is a count of
\* seconds, a string is matched against the duration pattern.
parseDelayMin(sr) ==
  IF sr.duration = None THEN None
  ELSE IF Val(sr.duration).isNumber THEN Some(RoundDiv(Val(sr.duration).num, 60))
  ELSE LET m == DurationMatch(Val(sr.duration).text)
       IN IF m = None THEN None
          ELSE LET total == Val(m).h * 60 + Val(m).min + RoundDiv(Val(m).s, 60)
               IN IF total = 0 THEN None ELSE Some(total)

\* safeIso: the publication time when it is a string of at least 10
\* characters (present), else the time of ingestion.  An ISO timestamp is kept
\* as the time in milliseconds it denotes.
safeIso(ts, now) == IF IsSome(ts) THEN Val(ts) ELSE now

(************************ structured feed (DATEX) **************************)
\* A TrafficEvent.  id is the template string's parts.
Event(id, roadType, roadCode, roadNumber, category, lengthKm, delayMin, lastUpdated, source) ==
  [id |-> id,
   roadType |-> roadType,
   roadNumber |-> roadNumber,
   roadCode |-> roadCode,
   category |-> category,
   lengthKm |-> lengthKm,
   delayMin |-> delayMin,
   externalInfo |-> None,
   lastUpdated |-> lastUpdated,
   source |-> source]

\* roadCode.startsWith('A') ? 'A' : 'N'
RoadTypeOfCode(roadCode) == IF roadCode /= <<>> /\ roadCode[1] = "A" THEN "A" ELSE "N"

\* The payloadPublication / payload node that fetchNdwDatexFeed reads: the
\* DATEX II v2 SOAP one if present, else the v3 messageContainer one.
DatexPublication(doc) ==
  IF doc.env = "v2" \/ doc.env = "v3"
    THEN [publicationTime |-> doc.publicationTime, situation |-> doc.situation]
    ELSE [publicationTime |-> None, situation |-> <<>>]

\* The situationRecords of the publication in document order, each with the id of
\* its situation.
DatexRecords(pub) ==
  LET F[i \in 0..Len(pub.situation)] ==
        IF i = 0 THEN <<>>
        ELSE F[i - 1] \o [k \in 1..Len(pub.situation[i].records) |->
                            [sitId |-> pub.situation[i].id,
                             sr |-> pub.situation[i].records[k]]]
  IN F[Len(pub.situation)]

\* Whether the loop of fetchNdwDatexFeed looks at the road of this record.
DatexKept(sr, feedHint) == feedHint /= "actueel_beeld" \/ sr.type = "AbnormalTraffic"

\* The record loop emitting a record whose road it could not find, on road A0.
DatexEvent_KeepsUnresolved(rec, feedHint, roadMap, publicationTime) ==
  LET sr == rec.sr
      found == parseRoadCodeFromSituationRecord(sr, roadMap)
      roadCode == IF found = None THEN Some(<<"A", "0">>) ELSE found
  IN IF ~DatexKept(sr, feedHint) THEN <<>>
     ELSE IF NumberOf(Tail(Val(roadCode))) = None THEN <<>>
     ELSE << Event(<<"NDW", feedHint, rec.sitId, sr.id>>,
                   RoadTypeOfCode(Val(roadCode)), Val(roadCode),
                   Val(NumberOf(Tail(Val(roadCode)))),
                   categoryFromType(sr.type, feedHint),
                   parseLengthKm(sr), parseDelayMin(sr), publicationTime, "NDW") >>

\* The body of the record loop: no event, or the event of the record.
DatexEvent(rec, feedHint, roadMap, publicationTime) ==
  LET sr == rec.sr
      roadCode == parseRoadCodeFromSituationRecord(sr, roadMap)
  IN IF ~DatexKept(sr, feedHint) \/ roadCode = None THEN <<>>
     ELSE IF NumberOf(Tail(Val(roadCode))) = None THEN <<>>
     ELSE << Event(<<"NDW", feedHint, rec.sitId, sr.id>>,
                   RoadTypeOfCode(Val(roadCode)), Val(roadCode),
                   Val(NumberOf(Tail(Val(roadCode)))),
                   categoryFromType(sr.type, feedHint),
                   parseLengthKm(sr), parseDelayMin(sr), publicationTime, "NDW") >>

\* fetchNdwDatexFeed on the response `payload` of the feed URL.  The result is
\* the settled promise and the location-table cache as the call leaves it.
fetchNdwDatexFeed(payload, feedHint, vc, now, vildUp) ==
  IF ~payload.httpOk
    THEN [res |-> Rejected("Failed to fetch NDW feed: 503"), vild |-> vc]
  ELSE IF ~payload.gzipOk
    THEN [res |-> Rejected("incorrect header check"), vild |-> vc]
  ELSE
    LET pub == DatexPublication(payload.doc)
        recs == DatexRecords(pub)
        needs == \E i \in 1..Len(recs) :
                   DatexKept(recs[i].sr, feedHint) /\ NeedsVild(recs[i].sr)
        v == getVildRoadMap(vc, now, vildUp)
        F[i \in 0..Len(recs)] ==
          IF i = 0 THEN <<>>
          ELSE F[i - 1] \o DatexEvent(recs[i], feedHint, v.map,
                                      safeIso(pub.publicationTime, now))
    IN IF needs /\ ~v.ok THEN [res |-> Rejected(v.err), vild |-> vc]
       ELSE [res |-> Fulfilled(F[Len(recs)]),
             vild |-> IF needs THEN v.vild ELSE vc]

(************************ measurement sites ********************************)
\* The number of sites of the long stretch of the measurement-site feed: more
\* than MAX_JAMS of them can be congested at once.
ManySites == 205

\* The id of the i-th site of the long stretch.
ManyId(i) == "m" \o ToString(i)

\* The location code of the i-th site of the long stretch: only every 10th has
\* a code the location table maps.
ManyLoc(i) == IF i % 10 /= 0 THEN 9999 ELSE IF i % 20 = 0 THEN 7200 ELSE 7300

\* The records of the long stretch: every 25th site has none, so the k-th
\* record is that of site k + (k - 1) \div 24.
ManySiteRecords ==
  [k \in 1..(ManySites - (ManySites \div 25)) |->
     [id |-> ManyId(k + ((k - 1) \div 24)), name |-> None,
      loc |-> Some(ManyLoc(k + ((k - 1) \div 24)))]]

\* measurement_current.xml.gz as the gunzip stream delivers it: chunks of
\* measurementSiteRecord elements (id, name, Alert-C specificLocation).
MsFeed ==
  << << [id |-> "s1", name |-> Some("Ring West"), loc |-> Some(7200)],
        [id |-> "s2", name |-> None, loc |-> Some(7300)] >>,
     << [id |-> "s3", name |-> Some("Onbekend"), loc |-> Some(9999)],
        [id |-> "s4", name |-> Some("Ring Oost"), loc |-> Some(7200)],
        [id |-> "s5", name |-> Some("Twente"), loc |-> Some(7300)] >>,
     ManySiteRecords,
     << [id |-> "s6", name |-> Some("Zuid"), loc |-> Some(7200)] >> >>

\* onclosetag of a wanted measurementSiteRecord: what sites.set stores for it.
SiteInfo(r, roadMap) ==
  [roadCode |-> IF IsSome(r.loc) THEN MapGet(roadMap, Val(r.loc)) ELSE None,
   name |-> r.name]

\* The last of the records `hits` of a chunk that has the id `id`.
LastHit(chunk, hits, id) ==
  CHOOSE i \in hits : chunk[i].id = id /\ \A j \in hits : chunk[j].id = id => j <= i

\* The state after the records `hits` of a chunk, whose ids are `found`, have
\* been recorded: sites.set overwrites, so the last record of an id stands.
RecordHits(chunk, hits, found, roadMap, st) ==
  [sites |-> [id \in (DOMAIN st.sites) \cup found |->
                IF id \in found THEN SiteInfo(chunk[LastHit(chunk, hits, id)], roadMap)
                ELSE st.sites[id]],
   remaining |-> st.remaining \ found,
   reads |-> st.reads]

\* parser.write(chunk): every record of the chunk whose id is wanted is recorded
\* and its id removed from the remaining set.
WriteChunk(chunk, ids, roadMap, st) ==
  RecordHits(chunk, {i \in 1..Len(chunk) : chunk[i].id \in ids},
             {chunk[i].id : i \in 1..Len(chunk)} \cap ids, roadMap, st)

\* The stream read to its end, whatever is still wanted.
ScanSites_ToTheEnd(chunks, ids, roadMap) ==
  LET G[i \in 0..Len(chunks)] ==
        IF i = 0 THEN [sites |-> EmptyMap, remaining |-> ids, reads |-> 0]
        ELSE [WriteChunk(chunks[i], ids, roadMap, G[i - 1]) EXCEPT !.reads = i]
  IN G[Len(chunks)]

\* The 'data' handler over the stream: chunks are written until the remaining
\* set is empty after a chunk (gunzip.destroy) or the stream ends.  reads counts
\* the chunks read.
ScanSites(chunks, ids, roadMap) ==
  LET G[i \in 0..Len(chunks)] ==
        IF i = 0 THEN [sites |-> EmptyMap, remaining |-> ids, reads |-> 0]
        ELSE IF G[i - 1].reads = i - 1 /\ (i = 1 \/ G[i - 1].remaining /= {})
          THEN LET w == WriteChunk(chunks[i], ids, roadMap, G[i - 1])
               IN [w EXCEPT !.reads = i]
          ELSE G[i - 1]
  IN G[Len(chunks)]

\* The response the retry loop of getMeasurementSitesFor ends with, for the
\* outcomes of its attempts ("ok" a success response, "http" a non-success
\* response, "net" a transport error): "none" when res is still null, else the
\* kind of the response last assigned to res.
MsFetch(tries) ==
  LET F[i \in 0..MS_FETCH_ATTEMPTS] ==
        IF i = 0 THEN "none"
        ELSE IF F[i - 1] = "ok" THEN "ok"
        ELSE IF tries[i] = "net" THEN F[i - 1]
        ELSE tries[i]
  IN F[MS_FETCH_ATTEMPTS]

\* What a call of getMeasurementSitesFor did: the ids it was
\* asked for, the response its retry loop ended with ("unused" when the loop was
\* not entered), whether it piped the body of that response into the parser,
\* and the chunks the parser was given.
NoTrace == [ids |-> {}, fetch |-> "unused", piped |-> FALSE, reads |-> 0]

\* getMeasurementSitesFor(ids): sc is __nlVerkeerMeasurementSiteCache.
getMeasurementSitesFor(ids, sc, vc, now, tries, vildUp) ==
  IF IsSome(sc) /\ now - Val(sc).fetchedAt < MEASUREMENT_SITE_CACHE_TTL_MS
    THEN [res |-> Fulfilled(Val(sc).sites), sites |-> sc, vild |-> vc,
          trace |-> [NoTrace EXCEPT !.ids = ids]]
  ELSE IF ids = {}
    THEN [res |-> Fulfilled(EmptyMap),
          sites |-> Some([fetchedAt |-> now, sites |-> EmptyMap]), vild |-> vc,
          trace |-> NoTrace]
  ELSE IF MsFetch(tries) = "none"
    THEN [res |-> Rejected("fetch failed"), sites |-> sc, vild |-> vc,
          trace |-> [ids |-> ids, fetch |-> "none", piped |-> FALSE, reads |-> 0]]
  ELSE
    LET v == getVildRoadMap(vc, now, vildUp)
        scan == ScanSites(MsFeed, ids, v.map)
    IN IF ~v.ok THEN [res |-> Rejected(v.err), sites |-> sc, vild |-> vc,
                      trace |-> [ids |-> ids, fetch |-> MsFetch(tries),
                                 piped |-> FALSE, reads |-> 0]]
       ELSE IF MsFetch(tries) = "http"
         \* the body of the error response is not a gzip stream
         THEN [res |-> Rejected("incorrect header check"), sites |-> sc,
               vild |-> v.vild,
               trace |-> [ids |-> ids, fetch |-> "http", piped |-> TRUE,
                         reads |-> 0]]
       ELSE [res |-> Fulfilled(scan.sites),
             sites |-> Some([fetchedAt |-> now, sites |-> scan.sites]),
             vild |-> v.vild,
             trace |-> [ids |-> ids, fetch |-> "ok", piped |-> TRUE,
                       reads |-> scan.reads]]

(************************ travel-time jam detector *************************)
\* Rounding down to the multiple of 5 below.
roundTo5Min_Down(num, den) == (num \div (5 * den)) * 5

\* Math.round(n / 5) * 5 for n = num / den.
roundTo5Min(num, den) == RoundDiv(num, 5 * den) * 5

\* guessLengthKmFromReference, in thousandths of km.
guessLengthKmFromReference(roadCode, refSeconds) ==
  LET kmh == IF RoadTypeOfCode(roadCode) = "A" THEN 100 ELSE 80
  IN Max2(100, RoundDiv(refSeconds * kmh * 10, 3600) * 100)

\* First pass of fetchNdwMeasuredJamsFromTravelTime: the candidates, in feed
\* order, of the sites whose rounded delay is at least 5 minutes.
\* One turn of the loop: what the measurement sm pushes onto candidates.
JamCandidate(sm) ==
  IF sm.siteId = None \/ ~sm.basic \/ sm.cur = None \/ sm.ref = None
    THEN <<>>
  ELSE LET delayMin == roundTo5Min(Val(sm.cur) - Val(sm.ref), 60)
       IN IF delayMin < 5 THEN <<>>
          ELSE << [siteId |-> Val(sm.siteId), curDur |-> Val(sm.cur),
                   refDur |-> Val(sm.ref), delayMin |-> delayMin] >>

RECURSIVE JamCandidatesIn(_, _, _)
\* The candidates of the measurements lo..hi, in feed order; the range is
\* halved so that a long feed is evaluated at a shallow depth.
JamCandidatesIn(siteMeasurements, lo, hi) ==
  IF lo > hi THEN <<>>
  ELSE IF lo = hi THEN JamCandidate(siteMeasurements[lo])
  ELSE LET mid == (lo + hi) \div 2
       IN JamCandidatesIn(siteMeasurements, lo, mid)
            \o JamCandidatesIn(siteMeasurements, mid + 1, hi)

JamCandidates(siteMeasurements) ==
  JamCandidatesIn(siteMeasurements, 1, Len(siteMeasurements))

\* (a, b) => b.delayMin - a.delayMin
ByDelayDesc(a, b) == b.delayMin - a.delayMin

RECURSIVE SortCandidates(_)
\* candidates.sort(...): Array.prototype.sort is stable (ES2019), so the
\* candidates that no other sorts strictly before come first, in their input
\* order, and the others follow, sorted the same way.
SortCandidates(cands) ==
  IF cands = <<>> THEN <<>>
  ELSE LET First(c) == \A k \in 1..Len(cands) : ByDelayDesc(cands[k], c) >= 0
           Later(c) == ~First(c)
       IN SelectSeq(cands, First) \o SortCandidates(SelectSeq(cands, Later))

\* The sorted candidates, all of them.
TopJams_Uncapped(cands) == SortCandidates(cands)

\* candidates.sort(...).slice(0, MAX_JAMS)
TopJams(cands) == SubSeq(SortCandidates(cands), 1, Min2(Len(cands), MAX_JAMS))

\* The output loop: one jam event per top candidate whose road is resolved.
JamEvent(c, siteInfo, publicationTime) ==
  LET info == MapGet(siteInfo, c.siteId)
      roadCode == IF info = None THEN None ELSE Val(info).roadCode
  IN IF roadCode = None \/ Val(roadCode) = <<>> THEN <<>>
     ELSE IF NumberOf(Tail(Val(roadCode))) = None THEN <<>>
     ELSE << Event(<<"NDW", "traveltime", c.siteId, "">>,
                   RoadTypeOfCode(Val(roadCode)), Val(roadCode),
                   Val(NumberOf(Tail(Val(roadCode)))), "jam",
                   Some(guessLengthKmFromReference(Val(roadCode), c.refDur)),
                   Some(c.delayMin), publicationTime, "NDW") >>

RECURSIVE JamEventsIn(_, _, _, _, _)
\* The events of the top candidates lo..hi, in their order.
JamEventsIn(top, lo, hi, siteInfo, publicationTime) ==
  IF lo > hi THEN <<>>
  ELSE IF lo = hi THEN JamEvent(top[lo], siteInfo, publicationTime)
  ELSE LET mid == (lo + hi) \div 2
       IN JamEventsIn(top, lo, mid, siteInfo, publicationTime)
            \o JamEventsIn(top, mid + 1, hi, siteInfo, publicationTime)

JamEvents(top, siteInfo, publicationTime) ==
  JamEventsIn(top, 1, Len(top), siteInfo, publicationTime)

\* fetchNdwMeasuredJamsFromTravelTime on the response `payload` of
\* traveltime.xml.gz; only the v2 SOAP envelope is read.
fetchNdwMeasuredJamsFromTravelTime(payload, sc, vc, now, tries, vildUp) ==
  IF ~payload.httpOk
    THEN [res |-> Rejected("Failed to fetch NDW feed traveltime.xml.gz: 503"),
          sites |-> sc, vild |-> vc, trace |-> NoTrace]
  ELSE IF ~payload.gzipOk
    THEN [res |-> Rejected("incorrect header check"), sites |-> sc, vild |-> vc,
          trace |-> NoTrace]
  ELSE
    LET pp == IF payload.doc.env = "v2" THEN payload.doc
              ELSE [publicationTime |-> None, siteMeasurements |-> <<>>]
        top == TopJams(JamCandidates(pp.siteMeasurements))
        wantedIds == {top[i].siteId : i \in 1..Len(top)}
        ms == getMeasurementSitesFor(wantedIds, sc, vc, now, tries, vildUp)
    IN IF ~ms.res.ok THEN [res |-> ms.res, sites |-> ms.sites, vild |-> ms.vild,
                           trace |-> ms.trace]
       ELSE [res |-> Fulfilled(JamEvents(top, ms.res.value,
                                         safeIso(pp.publicationTime, now))),
             sites |-> ms.sites, vild |-> ms.vild, trace |-> ms.trace]

\* fetchNdwEvents without the .catch on its travel-time leg: Promise.all rejects
\* with the rejection of that leg.
NdwMerge_NoCatch(w, jams, inc) ==
  [res |-> IF ~jams.res.ok THEN jams.res
           ELSE IF inc.res.ok THEN Fulfilled(jams.res.value \o inc.res.value)
           ELSE inc.res,
   sites |-> jams.sites,
   vild |-> inc.vild,
   legs |-> [jam |-> IF jams.res.ok THEN None ELSE Some(jams.res.err),
             inc |-> IF inc.res.ok THEN None ELSE Some(inc.res.err),
             resolver |-> jams.trace,
             envelope |-> IF w.incidents.httpOk /\ w.incidents.gzipOk
                            THEN w.incidents.doc.env ELSE "unread"]]

\* The array Promise.all of fetchNdwEvents resolves to, merged: jams is the
\* settled travel-time leg, whose rejection .catch(() => []) replaces by no
\* jams, inc the settled incidents leg.  legs records how the two legs settled
\* and the envelope the incidents parse met.
NdwMerge(w, jams, inc) ==
  [res |-> IF inc.res.ok
             THEN Fulfilled((IF jams.res.ok THEN jams.res.value ELSE <<>>)
                            \o inc.res.value)
             ELSE inc.res,
   sites |-> jams.sites,
   vild |-> inc.vild,
   legs |-> [jam |-> IF jams.res.ok THEN None ELSE Some(jams.res.err),
             inc |-> IF inc.res.ok THEN None ELSE Some(inc.res.err),
             resolver |-> jams.trace,
             envelope |-> IF w.incidents.httpOk /\ w.incidents.gzipOk
                            THEN w.incidents.doc.env ELSE "unread"]]

\* The incidents leg, run on the location-table cache as the travel-time leg
\* left it.
NdwIncidents(w, jams, now) ==
  NdwMerge(w, jams,
           fetchNdwDatexFeed(w.incidents, "incidents", jams.vild, now, w.vildUp))

\* fetchNdwEvents on the upstream answers w: both legs run concurrently; a
\* failure of the travel-time leg is replaced by an empty list, a failure of the
\* incidents leg rejects.  sc and vc are the measurement-site and location-table
\* caches.  The result is the settled promise and the two caches as the call
\* leaves them.
fetchNdwEvents(w, sc, vc, now) ==
  NdwIncidents(w, fetchNdwMeasuredJamsFromTravelTime(w.traveltime, sc, vc, now,
                                                     w.msTries, w.vildUp), now)

(************************ scrape source (ANWB) *****************************)
\* roadTypeFromSeg
roadTypeFromSeg(seg) ==
  IF seg.type = "a" \/ seg.type = "A" THEN Some("A")
  ELSE IF seg.type = "n" \/ seg.type = "N" THEN Some("N")
  ELSE None

\* roadNumberFromCode: /^([AN])(\d{1,3})$/ on the upper-cased code.
roadNumberFromCode(code) ==
  IF IsRoadShape13(ToUpper(code)) THEN Some(DigitsToNat(Tail(code))) ELSE None

\* The segment loop without the two thresholds: every distance taken as metres,
\* every delay as seconds.
AnwbEvent_AlwaysConverts(seg, fetchedIso) ==
  LET roadCode == StripSpaces(ToUpper(seg.road))
      rt == roadTypeFromSeg(seg)
      rn == roadNumberFromCode(roadCode)
  IN IF rt = None \/ rn = None THEN <<>>
     ELSE << Event(<<"anwb", "", seg.id, "">>, Val(rt), roadCode, Val(rn),
                   IF seg.category = "jams" THEN "jam" ELSE "accident",
                   IF seg.distance = None THEN None ELSE Some(Val(seg.distance)),
                   IF seg.delay = None THEN None
                   ELSE Some(RoundDiv(Val(seg.delay), 60)),
                   fetchedIso, "ANWB") >>

\* The body of the segment loop of fetchAnwbEvents.
AnwbEvent(seg, fetchedIso) ==
  LET roadCode == StripSpaces(ToUpper(seg.road))
      rt == roadTypeFromSeg(seg)
      rn == roadNumberFromCode(roadCode)
      lengthKm == IF seg.distance = None THEN None
                  ELSE IF Val(seg.distance) > 50 THEN Some(Val(seg.distance))
                  ELSE Some(Val(seg.distance) * 1000)
      delayMin == IF seg.delay = None THEN None
                  ELSE IF Val(seg.delay) > 180 THEN Some(RoundDiv(Val(seg.delay), 60))
                  ELSE seg.delay
  IN IF rt = None \/ rn = None THEN <<>>
     ELSE << Event(<<"anwb", "", seg.id, "">>, Val(rt), roadCode, Val(rn),
                   IF seg.category = "jams" THEN "jam" ELSE "accident",
                   lengthKm, delayMin, fetchedIso, "ANWB") >>

\* fetchAnwbEvents on the response `page` of the filelijst URL.
fetchAnwbEvents(page, now) ==
  IF ~page.httpOk THEN Rejected("ANWB scrape: HTTP 503")
  ELSE IF ~page.hasNextData THEN Rejected("ANWB scrape: __NEXT_DATA__ not found")
  ELSE IF ~page.hasList
    THEN Rejected("ANWB scrape: traffic-list dehydratedState not found")
  ELSE LET fetchedIso == IF IsSome(page.dataUpdatedAt) THEN Val(page.dataUpdatedAt)
                         ELSE now
           F[i \in 0..Len(page.segments)] ==
             IF i = 0 THEN <<>>
             ELSE F[i - 1] \o AnwbEvent(page.segments[i], fetchedIso)
       IN Fulfilled(F[Len(page.segments)])

(************************ filter / sort query engine ***********************)
\* parseQuery on the raw search parameters (each absent or a string).
parseQuery(raw) ==
  [type |-> IF IsSome(raw.type) /\ ToUpper(Val(raw.type)) \in {<<"A">>, <<"N">>}
              THEN Some(ToUpper(Val(raw.type))[1]) ELSE None,
   road |-> IF IsSome(raw.road) /\ Val(raw.road) /= <<>>
              THEN NumberOf(Val(raw.road)) ELSE None,
   category |-> IF raw.category \in {Some("jam"), Some("accident")}
                  THEN raw.category ELSE None,
   sort |-> IF raw.sort \in {Some("delay"), Some("length"), Some("road")}
              THEN raw.sort ELSE None]

\* A missing field counting as greater than any value.
OrMinus1_MissingFirst(o) == IF IsSome(o) THEN Val(o) ELSE 1000000

\* typeof v === 'number' ? v : -1
OrMinus1(o) == IF IsSome(o) THEN Val(o) ELSE -1

\* The comparator of applyFilterSort for sort key `sortKey`.
CompareEvents(a, b, sortKey) ==
  IF sortKey = "road" THEN
    IF a.roadType /= b.roadType THEN (IF a.roadType = "A" THEN -1 ELSE 1)
    ELSE IF a.roadNumber /= b.roadNumber THEN a.roadNumber - b.roadNumber
    ELSE IF OrMinus1(a.delayMin) /= OrMinus1(b.delayMin)
      THEN OrMinus1(b.delayMin) - OrMinus1(a.delayMin)
    ELSE OrMinus1(b.lengthKm) - OrMinus1(a.lengthKm)
  ELSE IF sortKey = "delay" THEN OrMinus1(b.delayMin) - OrMinus1(a.delayMin)
  ELSE OrMinus1(b.lengthKm) - OrMinus1(a.lengthKm)

\* e placed before the first element of t that does not sort before it: equal
\* elements end up in reverse order.
InsertEvent_Unstable(e, t, sortKey) ==
  LET later == {k \in 1..Len(t) : CompareEvents(t[k], e, sortKey) >= 0}
      pos == IF later = {} THEN Len(t) + 1
             ELSE CHOOSE k \in later : \A j \in later : k <= j
  IN SubSeq(t, 1, pos - 1) \o <<e>> \o SubSeq(t, pos, Len(t))

\* e placed before the first element of t that sorts strictly after it.
InsertEvent(e, t, sortKey) ==
  LET later == {k \in 1..Len(t) : CompareEvents(t[k], e, sortKey) > 0}
      pos == IF later = {} THEN Len(t) + 1
             ELSE CHOOSE k \in later : \A j \in later : k <= j
  IN SubSeq(t, 1, pos - 1) \o <<e>> \o SubSeq(t, pos, Len(t))

\* A sort that takes the events from the last to the first: events that compare
\* equal come out in reverse input order.
SortEvents_FromTheEnd(events, sortKey) ==
  LET F[i \in 0..Len(events)] ==
        IF i = 0 THEN <<>>
        ELSE InsertEvent(events[Len(events) - i + 1], F[i - 1], sortKey)
  IN F[Len(events)]

\* [...out].sort(comparator): stable (ES2019), so events that compare equal keep
\* their input order.
SortEvents(events, sortKey) ==
  LET F[i \in 0..Len(events)] ==
        IF i = 0 THEN <<>> ELSE InsertEvent(events[i], F[i - 1], sortKey)
  IN F[Len(events)]

\* The three filters of applyFilterSort, one after the other.
FilterEvents(events, q) ==
  LET KeepType(e) == q.type = None \/ e.roadType = Val(q.type)
      KeepRoad(e) == q.road = None \/ e.roadNumber = Val(q.road)
      KeepCat(e) == q.category = None \/ e.category = Val(q.category)
  IN SelectSeq(SelectSeq(SelectSeq(events, KeepType), KeepRoad), KeepCat)

\* applyFilterSort
applyFilterSort(events, q) ==
  SortEvents(FilterEvents(events, q), IF q.sort = None THEN "delay" ELSE Val(q.sort))

(************************ external enrichment (X) **************************)
X_CACHE_TTL_MS == 5 * 60 * 1000
USERID_TTL_MS == 24 * 60 * 60 * 1000
X_MAX_AGE_MS == 60 * 60 * 1000
X_BASES == 2

\* The match of new RegExp(`\\b${type}\\s*[- ]?\\s*${num}\\b`, 'i') at position
\* i of text, for the normalized road code rc.
RoadRegexAt(text, rc, i) ==
  LET num == Tail(rc)
      \* the separator between letter and number: whitespace with at most one "-"
      SepOk(a, z) ==
        /\ \A k \in a..z : IsSpace(text[k]) \/ text[k] = "-"
        /\ Cardinality({k \in a..z : text[k] = "-"}) <= 1
  IN /\ i <= Len(text)
     /\ UpperChar(text[i]) = rc[1]
     /\ (i = 1 \/ ~IsWordChar(text[i - 1]))
     /\ \E d \in (i + 1)..Len(text) :
          /\ SepOk(i + 1, d - 1)
          /\ d + Len(num) - 1 <= Len(text)
          /\ SubSeq(text, d, d + Len(num) - 1) = num
          /\ (d + Len(num) - 1 = Len(text) \/ ~IsWordChar(text[d + Len(num)]))

\* roadRegex(rc).test(text)
RoadRegexTest(text, rc) == \E i \in 1..Len(text) : RoadRegexAt(text, rc, i)

\* The state of the X client: the per-road cache, the cached post list, the
\* cached user id and the last error.
XInit == [cache |-> EmptyMap, tweets |-> None, userId |-> None, lastErr |-> None]

\* The message of the error the loop over the bases ends with: that of the last
\* base whose call threw ("fail": a non-success response, "timeout": the 5 s
\* timer), or `generic` when no call threw.
LastThrown(answers, timedOut, generic) ==
  LET thrown == {b \in 1..X_BASES : answers[b] \in {"fail", "timeout"}}
      last == CHOOSE b \in thrown : \A c \in thrown : c <= b
  IN IF thrown = {} THEN generic
     ELSE IF answers[last] = "fail" THEN "X API HTTP 503"
     ELSE timedOut

\* getRwsUserId: the bases are tried in order; "ok" answers with the id, "noid"
\* with a body that has no id, "fail" and "timeout" throw.  calls counts the
\* requests sent, ids is 1 when the id was asked of the API and 0 when it came
\* from the cache.
getRwsUserId(xs, now, xw) ==
  IF IsSome(xs.userId) /\ now - Val(xs.userId).fetchedAt < USERID_TTL_MS
    THEN [ok |-> TRUE, err |-> "", xs |-> xs, calls |-> 0, ids |-> 0]
  ELSE
    LET oks == {b \in 1..X_BASES : xw.userId[b] = "ok"}
        first == CHOOSE b \in oks : \A c \in oks : b <= c
        msg == LastThrown(xw.userId, "Timeout after 5000ms (getRwsUserId)",
                          "Failed to resolve RWSverkeersinfo user id")
    IN IF oks /= {}
         THEN [ok |-> TRUE, err |-> "",
               xs |-> [xs EXCEPT !.userId = Some([fetchedAt |-> now, id |-> "rws"])],
               calls |-> first, ids |-> 1]
         ELSE [ok |-> FALSE, err |-> msg,
               xs |-> [xs EXCEPT !.lastErr = Some([at |-> now, msg |-> msg])],
               calls |-> X_BASES, ids |-> 1]

\* getRwsLatestTweets: lists is 1 when the post list was asked of the API.
getRwsLatestTweets(xs, now, xw) ==
  IF IsSome(xs.tweets) /\ now - Val(xs.tweets).fetchedAt < X_CACHE_TTL_MS
    THEN [ok |-> TRUE, tweets |-> Val(xs.tweets).tweets, err |-> "", xs |-> xs,
          calls |-> 0, ids |-> 0, lists |-> 0]
  ELSE
    LET u == getRwsUserId(xs, now, xw)
        oks == {b \in 1..X_BASES : xw.tweets[b] = "ok"}
        first == CHOOSE b \in oks : \A c \in oks : b <= c
        msg == LastThrown(xw.tweets, "Timeout after 5000ms (getRwsLatestTweets)",
                          "Failed to fetch RWSverkeersinfo tweets")
    IN IF ~u.ok THEN [ok |-> FALSE, tweets |-> <<>>, err |-> u.err, xs |-> u.xs,
                      calls |-> u.calls, ids |-> u.ids, lists |-> 0]
       ELSE IF oks /= {}
         THEN [ok |-> TRUE, tweets |-> xw.list, err |-> "",
               xs |-> [u.xs EXCEPT !.tweets =
                         Some([fetchedAt |-> now, tweets |-> xw.list])],
               calls |-> u.calls + first, ids |-> u.ids, lists |-> 1]
       ELSE [ok |-> FALSE, tweets |-> <<>>, err |-> msg,
             xs |-> [u.xs EXCEPT !.lastErr = Some([at |-> now, msg |-> msg])],
             calls |-> u.calls + X_BASES, ids |-> u.ids, lists |-> 1]

\* tweets.find(...): the first post of the list that names the road and is at
\* most one hour old.
FindHit(tweets, rc, cutoff) ==
  LET hits == {i \in 1..Len(tweets) :
                 /\ RoadRegexTest(tweets[i].text, rc)
                 /\ IsSome(tweets[i].created_at)
                 /\ Val(tweets[i].created_at).valid
                 /\ Val(tweets[i].created_at).ts >= cutoff}
  IN IF hits = {} THEN None
     ELSE LET t == tweets[CHOOSE i \in hits : \A j \in hits : i <= j]
          IN Some([id |-> t.id, text |-> t.text,
                   createdAt |-> Some(Val(t.created_at).ts)])

\* fetchRwsExternalInfoForRoad(roadCode): token tells whether X_BEARER_TOKEN is
\* set, now is Date.now() at the call, later Date.now() when the posts arrived.
fetchRwsExternalInfoForRoad(roadCode, token, xs, now, later, xw) ==
  LET rc == StripSpaces(ToUpper(Trim(roadCode)))
      cached == MapGet(xs.cache, rc)
      t == getRwsLatestTweets(xs, now, xw)
      post == FindHit(t.tweets, rc, later - X_MAX_AGE_MS)
  IN IF ~token \/ ~(IsRoadShape13(rc) /\ rc[1] \in {"A", "N"})
       THEN [post |-> None, xs |-> xs, calls |-> 0, ids |-> 0, lists |-> 0,
             caught |-> None]
     ELSE IF IsSome(cached) /\ now - Val(cached).fetchedAt < X_CACHE_TTL_MS
       THEN [post |-> Val(cached).post, xs |-> xs, calls |-> 0, ids |-> 0,
             lists |-> 0, caught |-> None]
     ELSE IF t.ok
       THEN [post |-> post,
             xs |-> [t.xs EXCEPT !.cache =
                       MapSet(@, rc, [fetchedAt |-> now, post |-> post])],
             calls |-> t.calls, ids |-> t.ids, lists |-> t.lists, caught |-> None]
     ELSE [post |-> None,
           xs |-> [t.xs EXCEPT !.lastErr = Some([at |-> now, msg |-> t.err]),
                               !.cache = MapSet(@, rc, [fetchedAt |-> now,
                                                        post |-> None])],
           calls |-> t.calls, ids |-> t.ids, lists |-> t.lists,
           caught |-> Some([at |-> now, msg |-> t.err])]

\* An accessor that reports no failure once a post list has been fetched.
getXLastError_ClearedBySuccess(x) == IF IsSome(x.tweets) THEN None ELSE x.lastErr

\* getXLastError
getXLastError(x) == x.lastErr

\* The distinct road codes of the jam events, in order of first occurrence.
JamRoadCodes(events) ==
  LET F[i \in 0..Len(events)] ==
        IF i = 0 THEN <<>>
        ELSE IF events[i].category = "jam"
                /\ ~\E k \in 1..Len(F[i - 1]) : F[i - 1][k] = events[i].roadCode
          THEN Append(F[i - 1], events[i].roadCode)
          ELSE F[i - 1]
  IN F[Len(events)]

\* Promise.all(roadCodes.map(fetchRwsExternalInfoForRoad)): every call runs up to
\* its first network wait before any answer arrives, so each reads the caches as
\* the pass found them (xs); their writes are applied in the order of the calls.
\* MergeLookup applies the writes of the call c to the state prev; failed and err
\* record the road codes whose call ended in the catch block and the error the
\* last of them caught.
MergeLookup(prev, c, xs, roadCode) ==
  [byRoad |-> IF IsSome(c.post) THEN MapSet(prev.byRoad, roadCode, Val(c.post))
              ELSE prev.byRoad,
   xs |-> [cache |-> [k \in (DOMAIN prev.xs.cache) \cup (DOMAIN c.xs.cache)
                        |-> IF k \in DOMAIN c.xs.cache
                               /\ ~(k \in DOMAIN xs.cache
                                    /\ c.xs.cache[k] = xs.cache[k])
                              THEN c.xs.cache[k]
                            ELSE IF k \in DOMAIN prev.xs.cache
                              THEN prev.xs.cache[k]
                            ELSE c.xs.cache[k]],
           tweets |-> IF c.xs.tweets /= xs.tweets THEN c.xs.tweets
                      ELSE prev.xs.tweets,
           userId |-> IF c.xs.userId /= xs.userId THEN c.xs.userId
                      ELSE prev.xs.userId,
           lastErr |-> IF c.xs.lastErr /= xs.lastErr THEN c.xs.lastErr
                       ELSE prev.xs.lastErr],
   calls |-> prev.calls + c.calls,
   ids |-> prev.ids + c.ids,
   lists |-> prev.lists + c.lists,
   failed |-> IF IsSome(c.caught) THEN prev.failed \cup {roadCode} ELSE prev.failed,
   err |-> IF IsSome(c.caught) THEN c.caught ELSE prev.err]

EnrichLookups(roadCodes, token, xs, now, later, xw) ==
  LET F[i \in 0..Len(roadCodes)] ==
        IF i = 0 THEN [byRoad |-> EmptyMap, xs |-> xs, calls |-> 0, ids |-> 0,
                       lists |-> 0, failed |-> {}, err |-> None]
        ELSE MergeLookup(F[i - 1],
                         fetchRwsExternalInfoForRoad(roadCodes[i], token, xs, now,
                                                     later, xw),
                         xs, roadCodes[i])
  IN F[Len(roadCodes)]

\* The gate of line 104 without its test for the token.
EnrichGate_JamOnly(token, events) ==
  \E i \in 1..Len(events) : events[i].category = "jam"

\* The gate of line 104 without its test for a jam.
EnrichGate_TokenOnly(token, events) == token

\* Whether getEventsFresh starts the enrichment lookups for these events.
EnrichGate(token, events) ==
  token /\ \E i \in 1..Len(events) : events[i].category = "jam"

\* events.map(...) without the test of line 111: the post goes to every event of
\* the road.
AttachPosts_AllCategories(events, byRoad, now) ==
  [i \in 1..Len(events) |->
     LET e == events[i]
     IN IF ~MapHas(byRoad, e.roadCode) THEN e
        ELSE [e EXCEPT !.externalInfo =
                Some([text |-> byRoad[e.roadCode].text,
                      url |-> byRoad[e.roadCode].id,
                      updated |-> IF IsSome(byRoad[e.roadCode].createdAt)
                                    THEN Val(byRoad[e.roadCode].createdAt)
                                    ELSE now])]]

\* events.map(...) of getEventsFresh: the matched post attached to the jam rows.
AttachPosts(events, byRoad, now) ==
  IF DOMAIN byRoad = {} THEN events
  ELSE [i \in 1..Len(events) |->
          LET e == events[i]
          IN IF e.category /= "jam" \/ ~MapHas(byRoad, e.roadCode) THEN e
             ELSE [e EXCEPT !.externalInfo =
                     Some([text |-> byRoad[e.roadCode].text,
                           url |-> byRoad[e.roadCode].id,
                           updated |-> IF IsSome(byRoad[e.roadCode].createdAt)
                                         THEN Val(byRoad[e.roadCode].createdAt)
                                         ELSE now])]]

(************************ upstream answers *********************************)
\* What the upstream servers may answer; every settle step draws from these.
Sr(id, type, roadName, comment, locs, lengthM, duration) ==
  [id |-> id, type |-> type, roadName |-> roadName, comment |-> comment,
   locs |-> locs, lengthM |-> lengthM, duration |-> duration]

SituationsA ==
  << [id |-> "sit1",
      records |-> << Sr("r1", "Accident", Some(<<"A", "8">>), None, <<>>,
                        Some(<<"1", "5", "4", "0", "0">>),
                        Some(TagValue(<<"P", "T", "1", "H", "5", "M">>))) >>] >>

SituationsB ==
  << [id |-> "sit2",
      records |-> << Sr("r1", "VehicleObstruction", None,
                        Some(<<"x", " ", "n", " ", "3", "5", " ", "x">>), <<>>,
                        None, Some(TagValue(<<"3", "0", "0">>))),
                     Sr("r2", "Accident", None, None, <<9999, 7200>>, None,
                        Some(TagValue(<<"P", "T", "9", "0", "S">>))),
                     Sr("r3", "Accident", None, None, <<>>, None, None) >>] >>

EmptyDoc == [env |-> "none", publicationTime |-> None, situation |-> <<>>]

Sm(siteId, basic, cur, ref) ==
  [siteId |-> siteId, basic |-> basic, cur |-> cur, ref |-> ref]

SiteMeasurements ==
  << Sm(Some("s1"), TRUE, Some(1044), Some(300)),   \* 12.4 minutes
     Sm(Some("s3"), TRUE, Some(1500), Some(300)),   \* no road in the table
     Sm(Some("s2"), TRUE, Some(594), Some(300)),    \* 4.9 minutes
     Sm(Some("s4"), TRUE, None, Some(300)),
     Sm(None, TRUE, Some(900), Some(100)) >>

TtDown == [httpOk |-> FALSE, gzipOk |-> TRUE,
           doc |-> [env |-> "none", publicationTime |-> None, siteMeasurements |-> <<>>]]
TtJams == [httpOk |-> TRUE, gzipOk |-> TRUE,
           doc |-> [env |-> "v2", publicationTime |-> Some(3000),
                    siteMeasurements |-> SiteMeasurements]]
TtQuiet == [httpOk |-> TRUE, gzipOk |-> TRUE,
            doc |-> [env |-> "v2", publicationTime |-> Some(3000),
                     siteMeasurements |-> <<>>]]

IncDown == [httpOk |-> FALSE, gzipOk |-> TRUE, doc |-> EmptyDoc]
IncBadGzip == [httpOk |-> TRUE, gzipOk |-> FALSE, doc |-> EmptyDoc]
\* a well-formed document that is no DATEX publication (an error page)
IncNoEnvelope ==
  [httpOk |-> TRUE, gzipOk |-> TRUE,
   doc |-> [env |-> "none", publicationTime |-> Some(1000), situation |-> SituationsA]]
IncV2 ==
  [httpOk |-> TRUE, gzipOk |-> TRUE,
   doc |-> [env |-> "v2", publicationTime |-> Some(1000), situation |-> SituationsA]]
IncV3 ==
  [httpOk |-> TRUE, gzipOk |-> TRUE,
   doc |-> [env |-> "v3", publicationTime |-> Some(2000), situation |-> SituationsB]]

TravelTimePayloads == {TtDown, TtJams, TtQuiet}
IncidentPayloads == {IncDown, IncBadGzip, IncNoEnvelope, IncV2, IncV3}
MsTries == { <<"ok", "ok", "ok">>, <<"net", "http", "ok">>, <<"net", "net", "net">>,
             <<"http", "net", "http">> }

World(tt, inc, tries, vildUp) ==
  [traveltime |-> tt, incidents |-> inc, msTries |-> tries, vildUp |-> vildUp]

\* The answers one invocation of fetchNdwEvents may meet.
NdwWorlds ==
  { World(TtJams, IncV2, <<"ok", "ok", "ok">>, TRUE),
    World(TtJams, IncV3, <<"net", "net", "net">>, TRUE),
    World(TtJams, IncV3, <<"ok", "ok", "ok">>, FALSE),
    World(TtJams, IncV2, <<"ok", "ok", "ok">>, FALSE),
    World(TtDown, IncNoEnvelope, <<"ok", "ok", "ok">>, TRUE),
    World(TtQuiet, IncDown, <<"ok", "ok", "ok">>, TRUE),
    World(TtJams, IncBadGzip, <<"http", "net", "http">>, TRUE) }

CoreNdwWorlds ==
  { World(TtJams, IncV2, <<"ok", "ok", "ok">>, TRUE),
    World(TtDown, IncNoEnvelope, <<"ok", "ok", "ok">>, TRUE),
    World(TtQuiet, IncDown, <<"ok", "ok", "ok">>, TRUE) }

Seg(id, road, type, category, distance, delay) ==
  [id |-> id, road |-> road, type |-> type, category |-> category,
   distance |-> distance, delay |-> delay]

AnwbPages ==
  { [httpOk |-> FALSE, hasNextData |-> FALSE, hasList |-> FALSE,
     dataUpdatedAt |-> None, segments |-> <<>>],
    [httpOk |-> TRUE, hasNextData |-> TRUE, hasList |-> FALSE,
     dataUpdatedAt |-> None, segments |-> <<>>],
    [httpOk |-> TRUE, hasNextData |-> TRUE, hasList |-> TRUE,
     dataUpdatedAt |-> Some(4000),
     segments |-> << Seg("11", <<"a", "8">>, "a", "jams", Some(1100), Some(960)),
                     Seg("12", <<"N", "3", "5">>, "n", "roadworks", Some(30), None),
                     Seg("13", <<"B", "7">>, "x", "jams", None, None),
                     Seg("14", <<"A", " ", "8">>, "A", "jams", Some(20), Some(5)),
                     Seg("15", <<"A", "8">>, "a", "roadworks", None, None) >>] }

CoreAnwbPages == {p \in AnwbPages : p.hasList \/ ~p.httpOk}

Tweet(id, text, created_at) == [id |-> id, text |-> text, created_at |-> created_at]

TweetList ==
  << Tweet("t1", <<"A", "1", "0", " ", "x">>, Some([valid |-> TRUE, ts |-> -4000000])),
     Tweet("t2", <<"x", " ", "a", "-", "1", "0">>, Some([valid |-> TRUE, ts |-> 0])),
     Tweet("t3", <<"A", " ", "8">>, Some([valid |-> TRUE, ts |-> 500])),
     Tweet("t4", <<"A", "8">>, Some([valid |-> TRUE, ts |-> 900])),
     Tweet("t5", <<"N", "3", "5">>, Some([valid |-> TRUE, ts |-> -3500000])),
     Tweet("t6", <<"N", "3", "5">>, None) >>

XWorlds ==
  { [userId |-> <<"fail", "ok">>, tweets |-> <<"ok", "ok">>, list |-> TweetList],
    [userId |-> <<"fail", "fail">>, tweets |-> <<"ok", "ok">>, list |-> TweetList],
    [userId |-> <<"ok", "ok">>, tweets |-> <<"fail", "fail">>, list |-> TweetList],
    [userId |-> <<"noid", "ok">>, tweets |-> <<"fail", "timeout">>,
     list |-> TweetList] }

CoreXWorlds == {xw \in XWorlds : xw.userId[1] = "fail"}

RawQueries ==
  { [type |-> None, road |-> None, category |-> None, sort |-> None, xdebug |-> FALSE],
    [type |-> Some(<<"a">>), road |-> Some(<<"8">>), category |-> Some("jam"),
     sort |-> Some("road"), xdebug |-> TRUE] }

\* Events a snapshot may hold, for the query engine: two jams on the A8 with
\* delays 20 and 5, an accident on the N35 with delay 99, a second A8 jam equal
\* to the first on every sort key, an event without delay and length, and an A8
\* event with the delay of q2 and a greater length.
QueryEvents ==
  { Event(<<"q", "", "1", "">>, "A", <<"A", "8">>, 8, "jam", Some(3000), Some(20),
          0, "NDW"),
    Event(<<"q", "", "2", "">>, "A", <<"A", "8">>, 8, "jam", Some(1000), Some(5),
          0, "NDW"),
    Event(<<"q", "", "3", "">>, "N", <<"N", "3", "5">>, 35, "accident", None,
          Some(99), 0, "NDW"),
    Event(<<"q", "", "4", "">>, "A", <<"A", "8">>, 8, "jam", Some(3000), Some(20),
          0, "NDW"),
    Event(<<"q", "", "5", "">>, "A", <<"A", "2">>, 2, "accident", None, None,
          0, "NDW"),
    Event(<<"q", "", "6", "">>, "A", <<"A", "8">>, 8, "accident", Some(7000),
          Some(5), 0, "NDW") }

\* The longest snapshot of the query specification.
MaxSnapshot == 3

\* The snapshots of the query specification: the events above in every order,
\* none of them twice.
QuerySnapshots ==
  UNION { {es \in [1..n -> QueryEvents] : \A i, j \in 1..n : es[i] = es[j] => i = j}
          : n \in 0..MaxSnapshot }

\* The search parameters of the query specification: each absent, recognised or
\* not recognised.
QueryInputs ==
  [type : {None, Some(<<"a">>), Some(<<"N">>), Some(<<"x">>)},
   road : {None, Some(<<"8">>), Some(<<"a", "b">>), Some(<<" ">>)},
   category : {None, Some("jam"), Some("JAM")},
   sort : {None, Some("delay"), Some("road"), Some("length"), Some("name")},
   xdebug : {FALSE}]

\* The situationRecords of the ingestion specification, each with its own id:
\* a record with a road name (and a comment and a location code that name other
\* roads), a length in metres and a duration of hours and minutes; one whose
\* comment names the road (and whose location code names another) and whose
\* duration is a bare count of seconds; one with location codes and a duration
\* of seconds; one whose road name and comment fail and that has two location
\* codes the table maps; one with nothing to find a road by; one whose road
\* name, comment and location code all fail; one whose road name has a leading
\* zero.
IngestRecords ==
  { Sr("a", "Accident", Some(<<"A", "8">>),
       Some(<<"x", " ", "n", " ", "3", "5", " ", "x">>), <<7200>>,
       Some(<<"1", "5", "4", "0", "0">>),
       Some(TagValue(<<"P", "T", "1", "H", "5", "M">>))),
    Sr("b", "VehicleObstruction", None,
       Some(<<"x", " ", "n", " ", "3", "5", " ", "x">>), <<7200>>,
       None, Some(TagValue(<<"3", "0", "0">>))),
    Sr("d", "Accident", Some(<<"B", "7">>), Some(<<"x", "9", " ", "x">>),
       <<7300, 9999, 7200>>, None, None),
    Sr("c", "Accident", None, None, <<9999, 7200>>, None,
       Some(TagValue(<<"P", "T", "9", "0", "S">>))),
    Sr("u", "Accident", None, None, <<>>, Some(<<"5", "0", "0">>), None),
    Sr("v", "Accident", Some(<<"B", "7">>), Some(<<"x", "9", " ", "x">>), <<9999>>,
       None, Some(TagValue(<<"P", "T", "5", "M">>))),
    Sr("z", "Accident", Some(<<"a", "0", "8">>), None, <<>>,
       Some(<<"4", "9">>), None) }

\* The longest batch of records, list of site measurements and list of segments
\* of the ingestion specification.
MaxBatch == 3
MaxSites == 2
MaxSegments == 2

\* The batches: up to MaxBatch of the records, in every order.
IngestBatches == UNION { [1..n -> IngestRecords] : n \in 0..MaxBatch }

RECURSIVE BatchId(_)
\* The id of the situation that holds a batch: the ids of its records, joined.
BatchId(b) == IF b = <<>> THEN "" ELSE Head(b).id \o BatchId(Tail(b))

\* incidents.xml.gz holding the batch b as the records of one situation.
IncBatch(b) ==
  [httpOk |-> TRUE, gzipOk |-> TRUE,
   doc |-> [env |-> "v2", publicationTime |-> Some(1000),
            situation |-> << [id |-> BatchId(b), records |-> b] >>]]

\* The site measurements of the ingestion specification, one per site, all with
\* a reference travel time of 300 s: raw delays of 12.4, 4.9, 13.0, 2.4 and 20
\* minutes (the last on a site without road), and one without site id.
IngestMeasurements ==
  { Sm(Some("s1"), TRUE, Some(1044), Some(300)),
    Sm(Some("s2"), TRUE, Some(594), Some(300)),
    Sm(Some("s4"), TRUE, Some(1080), Some(300)),
    Sm(Some("s5"), TRUE, Some(444), Some(300)),
    Sm(Some("s3"), TRUE, Some(1500), Some(300)),
    Sm(None, TRUE, Some(900), Some(100)) }

\* The measurements of the long stretch, all with a reference travel time of
\* 300 s: raw delays of 5, 10, .. 30 minutes in turn, and one of 2 minutes on
\* every 101st site.
ManyDelaySec(i) == IF i % 101 = 0 THEN 120 ELSE 300 * (1 + (i % 6))
ManyMeasurements ==
  [i \in 1..ManySites |-> Sm(Some(ManyId(i)), TRUE, Some(300 + ManyDelaySec(i)),
                             Some(300))]

\* traveltime.xml.gz holding the site measurements sms.
TtSites(sms) ==
  [httpOk |-> TRUE, gzipOk |-> TRUE,
   doc |-> [env |-> "v2", publicationTime |-> Some(3000), siteMeasurements |-> sms]]

\* The answers fetchNdwEvents meets in the ingestion specification: every list
\* of site measurements and the long stretch, with no incidents, and every
\* batch with no jams.
IngestNdwWorlds ==
  { World(TtSites(sms), IncBatch(<<>>), <<"ok", "ok", "ok">>, TRUE) :
      sms \in UNION { [1..n -> IngestMeasurements] : n \in 1..MaxSites }
                \cup {ManyMeasurements} }
  \cup { World(TtQuiet, IncBatch(b), <<"ok", "ok", "ok">>, TRUE) :
            b \in IngestBatches }

\* The segments of the ingestion specification, each with its own id: metres
\* and seconds; kilometres and minutes; a type that is not the letter of the
\* road, metres that are no multiple of 100 and a delay of exactly 180; neither
\* A nor N; a distance of exactly 50 and a delay of 181; a distance of 51 and no
\* delay.
IngestSegments ==
  { Seg("g1", <<"a", "8">>, "a", "jams", Some(1100), Some(960)),
    Seg("g2", <<"N", "3", "5">>, "n", "roadworks", Some(30), Some(5)),
    Seg("g3", <<"A", "8">>, "n", "jams", Some(1234), Some(180)),
    Seg("g4", <<"B", "7">>, "x", "jams", Some(1100), Some(960)),
    Seg("g5", <<"A", " ", "8">>, "A", "jams", Some(50), Some(181)),
    Seg("g6", <<"N", "3", "5">>, "N", "jams", Some(51), None) }

\* The pages fetchAnwbEvents meets in the ingestion specification.
IngestAnwbPages ==
  { [httpOk |-> TRUE, hasNextData |-> TRUE, hasList |-> TRUE,
     dataUpdatedAt |-> Some(4000), segments |-> segs] :
      segs \in UNION { [1..n -> IngestSegments] : n \in 1..MaxSegments } }

\* The instants at which the clock is observed: the start, 8 s and 16 s later
\* (a timer armed at the start fires, and then the timer of the fallback), 10 s,
\* 130 s (10 s + 120 s: a snapshot taken at 10 s is exactly two minutes old, one
\* taken at 16 s is not yet) and 138 s (a timer armed at 130 s fires).
Instants == {0, 8000, 10000, 16000, 130000, 138000}

\* The instants of the concurrent specification.
CoreInstants == {0, 8000, 130000, 138000}

(************************ cache and fallback orchestrator ******************)
VARIABLES
  clock,       \* Date.now()
  env,         \* process.env: preferred source and whether X_BEARER_TOKEN is set
  cache,       \* globalThis.__nlVerkeerCache
  vildCache,   \* globalThis.__nlVerkeerVildCache
  siteCache,   \* globalThis.__nlVerkeerMeasurementSiteCache
  xs,          \* the X client's caches and last error
  req,         \* the requests in flight: position and locals of GET/getEventsFresh
  issued,      \* number of requests received so far
  refreshes,   \* number of load() invocations so far
  abandoned    \* source invocations still running after their timer has fired

vars == <<clock, env, cache, vildCache, siteCache, xs, req, issued, refreshes,
          abandoned>>

\* The requests that can be in flight at the same time.  SpecSeq uses the first
\* slot only.
Slots == {1, 2}

NoResponse == [ok |-> FALSE, status |-> 0, stale |-> FALSE, warning |-> None,
               xDebug |-> None, fetchedAt |-> 0, count |-> 0, events |-> <<>>,
               error |-> ""]

\* q.raw keeps the search parameters the query was parsed from.
NoQuery == [type |-> None, road |-> None, category |-> None, sort |-> None,
            xdebug |-> FALSE,
            raw |-> [type |-> None, road |-> None, category |-> None,
                     sort |-> None, xdebug |-> FALSE]]

\* A free slot.  now, cache, q, timer, events are the locals of the handler; seq
\* (the rank of the request), load (how load() settled), enriched (the lookups
\* were started), wrote (line 125 was executed), failure (the message caught),
\* loadEnd (when load() settled) and legs (how the two legs of fetchNdwEvents
\* settled, and the envelope the incidents parse met), scrape (how the scrape
\* attempt ended: "none" when it was not made, "pending", "ok", "failed" or
\* "timeout"), loaded (the events load() gave, before any post was attached) and
\* xpass (what the enrichment lookups of the request caught) record what the
\* request did.
NoLegs == [jam |-> None, inc |-> None, resolver |-> NoTrace, envelope |-> "unread"]

NoPass == [failed |-> {}, err |-> None]

IdleReq ==
  [pc |-> "idle", now |-> 0, cache |-> None, q |-> NoQuery, timer |-> 0,
   events |-> <<>>, seq |-> 0, load |-> "none", enriched |-> FALSE,
   wrote |-> FALSE, failure |-> "", loadEnd |-> 0, legs |-> NoLegs,
   scrape |-> "none", loaded |-> <<>>, xpass |-> NoPass,
   resp |-> NoResponse]

\* process.env.NL_VERKEER_SOURCE (upper-cased) and X_BEARER_TOKEN.
Envs == [preferred : {"NDW", "ANWB"}, token : BOOLEAN]

CoreEnvs == { [preferred |-> "NDW", token |-> TRUE],
             [preferred |-> "ANWB", token |-> FALSE] }

\* The state of the module-level variables after the modules are loaded, under
\* the environment e.
Loaded0(e) ==
  /\ clock = 0
  /\ env = e
  /\ cache = None
  /\ vildCache = None
  /\ siteCache = None
  /\ xs = XInit
  /\ req = [r \in Slots |-> IdleReq]
  /\ issued = 0
  /\ refreshes = 0
  /\ abandoned = {}

Init == \E e \in CoreEnvs : Loaded0(e)

InitSeq == \E e \in Envs : Loaded0(e)

\* Line 81 with the comparison turned round.
IsFresh_Inverted(c, now) == IsSome(c) /\ now - Val(c).fetchedAt >= CACHE_TTL_MS

\* Line 81 with <= for <.
IsFresh_Inclusive(c, now) == IsSome(c) /\ now - Val(c).fetchedAt <= CACHE_TTL_MS

\* getEventsFresh, line 81: the snapshot is served as it is.
IsFresh(c, now) == IsSome(c) /\ now - Val(c).fetchedAt < CACHE_TTL_MS

\* getEventsFresh, line 124: the snapshot a successful refresh stores.
NextCache(now, events) == Some([fetchedAt |-> now, events |-> events])

\* Line 125 as an update of the object in place that has written fetchedAt
\* and not yet events.
StoreCache_Torn(old, next) ==
  IF IsSome(old)
    THEN Some([fetchedAt |-> Val(next).fetchedAt, events |-> Val(old).events])
    ELSE next

\* Line 125 guarded so that a snapshot is never replaced by one that is not
\* newer: of two refreshes that started together the first writer wins.
StoreCache_KeepsNewest(old, next) ==
  IF IsSome(old) /\ Val(old).fetchedAt >= Val(next).fetchedAt THEN old ELSE next

\* The assignment of line 125: what the cache slot holds after storing `next`
\* over `old`.
StoreCache(old, next) == next

\* withTimeout: the timer armed at `armed` for `ms` has fired.
TimerFired(armed, ms, now) == now >= armed + ms

\* The message of the timeout Error of withTimeout around fetchNdwEvents.
TimeoutMessage(preferred) ==
  IF preferred = "ANWB" THEN "Timeout after 8000ms (fetchNdwEvents(fallback))"
  ELSE "Timeout after 8000ms (fetchNdwEvents)"

\* out.sort(...) without the copy: when no filter has replaced `out`, the array
\* sorted in place is the snapshot's own.
SnapshotAfterQuery_SortsInPlace(snap, q) ==
  IF q.type = None /\ q.road = None /\ q.category = None
    THEN [snap EXCEPT !.events = applyFilterSort(snap.events, q)]
    ELSE snap

\* The snapshot after applyFilterSort has run on its events: filter returns a new
\* array and [...out].sort sorts a copy, so the array it was given and the
\* snapshot object are as they were.
SnapshotAfterQuery(snap, q) == snap

\* GET, lines 143-156: the body of a success response.
\* count taken from the snapshot before the filter.
SuccessResponse_CountsAll(snap, stale, warning, q, lastErr) ==
  LET filtered == applyFilterSort(snap.events, q)
  IN [ok |-> TRUE, status |-> 200, stale |-> stale, warning |-> warning,
      xDebug |-> IF q.xdebug THEN lastErr ELSE None,
      fetchedAt |-> snap.fetchedAt, count |-> Len(snap.events),
      events |-> filtered, error |-> ""]

SuccessResponse(snap, stale, warning, q, lastErr) ==
  LET filtered == applyFilterSort(snap.events, q)
  IN [ok |-> TRUE, status |-> 200, stale |-> stale, warning |-> warning,
      xDebug |-> IF q.xdebug THEN lastErr ELSE None,
      fetchedAt |-> snap.fetchedAt, count |-> Len(filtered), events |-> filtered,
      error |-> ""]

\* GET, lines 157-165.
ErrorResponse(msg) ==
  [NoResponse EXCEPT !.ok = FALSE, !.status = 500, !.error = msg]

\* The catch block without its fallback: every failure is rethrown.
FailureResponse_Rethrows(c, msg, q, lastErr) == ErrorResponse(msg)

\* The catch block answering with an empty stale list when it has no snapshot.
FailureResponse_EmptyStale(c, msg, q, lastErr) ==
  SuccessResponse(IF IsSome(c) THEN Val(c) ELSE [fetchedAt |-> 0, events |-> <<>>],
                  TRUE, Some(<<"Serving stale data: ", msg>>), q, lastErr)

\* The catch block of getEventsFresh and what GET makes of it: the snapshot the
\* request read at its start is served as stale, or the error is the response.
FailureResponse(c, msg, q, lastErr) ==
  IF IsSome(c)
    THEN SuccessResponse(Val(c), TRUE, Some(<<"Serving stale data: ", msg>>), q, lastErr)
    ELSE ErrorResponse(msg)

\* load() trying the scrape source first whatever the mode.
FirstSource_AlwaysScrape(preferred) == "anwb"

\* load(), line 86: the source whose fetch is started first.
FirstSource(preferred) == IF preferred = "ANWB" THEN "anwb" ELSE "ndw"

\* The query of a request: parseQuery plus the xdebug flag.
QueryOf(raw) ==
  LET q == parseQuery(raw)
  IN [type |-> q.type, road |-> q.road, category |-> q.category, sort |-> q.sort,
      xdebug |-> raw.xdebug, raw |-> raw]

\* GET is called: getEventsFresh reads the clock and the cache and either
\* answers from the fresh snapshot or starts load().  The query of the request
\* is first used when the response is built; the model draws it there.  Slots
\* are interchangeable: a new request takes the first free one.  `raws` are the
\* search parameters a fresh hit may come with.
Get(r, raws) ==
  /\ req[r].pc = "idle"
  /\ \A r2 \in Slots : r2 < r => req[r2].pc /= "idle"
  /\ issued < MaxRequests
  /\ issued' = issued + 1
  /\ LET base == [IdleReq EXCEPT !.now = clock, !.cache = cache,
                                 !.seq = issued + 1]
     IN IF IsFresh(cache, clock)
          THEN /\ \E raw \in raws :
                    /\ req' = [req EXCEPT ![r] =
                                 [base EXCEPT !.pc = "done", !.q = QueryOf(raw),
                                    !.resp = SuccessResponse(Val(cache), FALSE, None,
                                                             QueryOf(raw),
                                                             getXLastError(xs))]]
                    /\ cache' = Some(SnapshotAfterQuery(Val(cache), QueryOf(raw)))
               /\ refreshes' = refreshes
          ELSE /\ cache' = cache
               /\ req' = [req EXCEPT ![r] =
                            [base EXCEPT !.pc = FirstSource(env.preferred),
                                         !.scrape =
                                           IF FirstSource(env.preferred) = "anwb"
                                             THEN "pending" ELSE "none",
                                         !.timer = clock]]
               /\ refreshes' = refreshes + 1
  /\ UNCHANGED <<clock, env, vildCache, siteCache, xs, abandoned>>

Start(r) == Get(r, RawQueries)

\* The catch block dropping the snapshot it could not refresh.
Failed_DropsSnapshot(r, msg, legs) ==
  /\ \E raw \in RawQueries :
       req' = [req EXCEPT ![r].pc = "done", ![r].load = "failed",
                          ![r].failure = msg, ![r].loadEnd = clock,
                          ![r].legs = legs,
                          ![r].q = QueryOf(raw),
                          ![r].resp = FailureResponse(req[r].cache, msg,
                                                      QueryOf(raw),
                                                      getXLastError(xs))]
  /\ cache' = None
  /\ UNCHANGED xs

\* load() rejected with `msg`: the catch block answers.
\* The catch branch answering from the stored snapshot as it is when the refresh
\* fails, instead of the one read at the start of the request.
Failed_ServesStored(r, msg, legs) ==
  /\ \E raw \in RawQueries :
       /\ req' = [req EXCEPT ![r].pc = "done", ![r].load = "failed",
                             ![r].failure = msg, ![r].loadEnd = clock,
                             ![r].legs = legs,
                             ![r].q = QueryOf(raw),
                             ![r].resp = FailureResponse(cache, msg, QueryOf(raw),
                                                         getXLastError(xs))]
       /\ cache' = cache
  /\ UNCHANGED xs

Failed(r, msg, legs) ==
  /\ \E raw \in RawQueries :
       /\ req' = [req EXCEPT ![r].pc = "done", ![r].load = "failed",
                             ![r].failure = msg, ![r].loadEnd = clock,
                             ![r].legs = legs,
                             ![r].q = QueryOf(raw),
                             ![r].resp = FailureResponse(req[r].cache, msg,
                                                         QueryOf(raw),
                                                         getXLastError(xs))]
       \* the stale snapshot served is the stored object unless another request
       \* has replaced it meanwhile
       /\ cache' = IF IsSome(cache) /\ cache = req[r].cache
                     THEN Some(SnapshotAfterQuery(Val(cache), QueryOf(raw)))
                     ELSE cache
  /\ UNCHANGED xs

\* Lines 124-126 and the response: the snapshot is stored and served.
StoreAndRespond(r, events, look, enriched, rec) ==
  LET next == NextCache(req[r].now, events)
  IN /\ xs' = look.xs
     /\ \E raw \in RawQueries :
          /\ cache' = StoreCache(cache, Some(SnapshotAfterQuery(Val(next),
                                                                QueryOf(raw))))
          /\ req' = [req EXCEPT ![r].pc = "done", ![r].load = "ok", ![r].wrote = TRUE,
                             ![r].events = events, ![r].enriched = enriched,
                             ![r].loaded = rec.loaded,
                             ![r].loadEnd = rec.loadEnd, ![r].legs = rec.legs,
                             ![r].scrape = rec.scrape,
                             ![r].xpass = [failed |-> look.failed, err |-> look.err],
                             ![r].q = QueryOf(raw),
                             ![r].resp = SuccessResponse(Val(next), FALSE, None,
                                                         QueryOf(raw),
                                                         getXLastError(look.xs))]

\* load() fulfilled with `events`: the gate of line 104 decides whether the
\* lookups are started and awaited, or the snapshot is stored at once.
Loaded(r, events, legs, scrape) ==
  IF EnrichGate(env.token, events)
    THEN /\ req' = [req EXCEPT ![r].pc = "enrich", ![r].load = "ok",
                               ![r].events = events, ![r].enriched = TRUE,
                               ![r].loaded = events,
                               ![r].loadEnd = clock, ![r].legs = legs,
                               ![r].scrape = scrape,
                               ![r].timer = clock]
         /\ UNCHANGED <<cache, xs>>
    ELSE StoreAndRespond(r, events, [xs |-> xs, failed |-> {}, err |-> None], FALSE,
                         [loaded |-> events, loadEnd |-> clock, legs |-> legs,
                          scrape |-> scrape])

\* An invocation that lost the race against its timer: withTimeout has rejected,
\* the invocation runs on.
Abandon(r, source) == [seq |-> req[r].seq, source |-> source, started |-> req[r].timer]

\* The abandoned invocations after request r has abandoned that of `source`.
\* Those beyond MaxAbandoned are taken never to settle and are not followed.
Abandoned(r, source) ==
  IF Cardinality(abandoned) < MaxAbandoned
    THEN abandoned \cup {Abandon(r, source)}
    ELSE abandoned

\* The scrape attempt settles before its timer.
AnwbSettled(r, res) ==
  IF res.ok THEN Loaded(r, res.value, NoLegs, "ok")
  ELSE /\ req' = [req EXCEPT ![r].pc = "ndw", ![r].timer = clock,
                             ![r].scrape = "failed"]
       /\ UNCHANGED <<cache, xs>>

AnwbSettle(r, page) ==
  /\ req[r].pc = "anwb"
  /\ AnwbSettled(r, fetchAnwbEvents(page, req[r].timer))
  /\ UNCHANGED <<clock, env, vildCache, siteCache, issued, refreshes, abandoned>>

\* The timer of the scrape attempt fires: the fallback is started.
AnwbTimeout(r) ==
  /\ req[r].pc = "anwb"
  /\ TimerFired(req[r].timer, LOAD_TIMEOUT_MS, clock)
  /\ req' = [req EXCEPT ![r].pc = "ndw", ![r].timer = clock,
                        ![r].scrape = "timeout"]
  /\ abandoned' = Abandoned(r, "ANWB")
  /\ UNCHANGED <<clock, env, cache, vildCache, siteCache, xs, issued, refreshes>>

\* fetchNdwEvents settles before its timer, on the answers w.
NdwSettled(r, out) ==
  /\ vildCache' = out.vild
  /\ siteCache' = out.sites
  /\ IF out.res.ok THEN Loaded(r, out.res.value, out.legs, req[r].scrape)
     ELSE Failed(r, out.res.err, out.legs)

NdwSettle(r, w) ==
  /\ req[r].pc = "ndw"
  /\ NdwSettled(r, fetchNdwEvents(w, siteCache, vildCache, req[r].timer))
  /\ UNCHANGED <<clock, env, issued, refreshes, abandoned>>

\* The timer of fetchNdwEvents fires first.
NdwTimeout(r) ==
  /\ req[r].pc = "ndw"
  /\ TimerFired(req[r].timer, LOAD_TIMEOUT_MS, clock)
  /\ Failed(r, TimeoutMessage(env.preferred), NoLegs)
  /\ abandoned' = Abandoned(r, "NDW")
  /\ UNCHANGED <<clock, env, vildCache, siteCache, issued, refreshes>>

\* An error caught by a lookup thrown on to getEventsFresh: the refresh fails.
EnrichSettled_Rethrows(r, look) ==
  IF look.failed = {}
    THEN StoreAndRespond(r, AttachPosts(req[r].events, look.byRoad, req[r].now),
                         look, TRUE,
                         [loaded |-> req[r].loaded, loadEnd |-> req[r].loadEnd,
                          legs |-> req[r].legs, scrape |-> req[r].scrape])
    ELSE /\ \E raw \in RawQueries :
              req' = [req EXCEPT ![r].pc = "done", ![r].load = "failed",
                                 ![r].failure = Val(look.err).msg,
                                 ![r].xpass = [failed |-> look.failed,
                                               err |-> look.err],
                                 ![r].q = QueryOf(raw),
                                 ![r].resp = FailureResponse(req[r].cache,
                                                             Val(look.err).msg,
                                                             QueryOf(raw),
                                                             getXLastError(look.xs))]
         /\ xs' = look.xs
         /\ UNCHANGED cache

\* Promise.all of the lookups settles: the posts are attached and the snapshot
\* is stored.
EnrichSettled(r, look) ==
  StoreAndRespond(r, AttachPosts(req[r].events, look.byRoad, req[r].now),
                  look, TRUE,
                  [loaded |-> req[r].loaded, loadEnd |-> req[r].loadEnd,
                   legs |-> req[r].legs, scrape |-> req[r].scrape])

EnrichSettle(r, xw) ==
  /\ req[r].pc = "enrich"
  /\ EnrichSettled(r, EnrichLookups(JamRoadCodes(req[r].events), env.token, xs,
                                    req[r].timer, clock, xw))
  /\ UNCHANGED <<clock, env, vildCache, siteCache, issued, refreshes, abandoned>>

\* A late result that is stored as if the race had been won.
SettleAfterTimeout_Stores(c, res, started) ==
  IF res.ok THEN NextCache(started, res.value) ELSE c

\* withTimeout, lines 66-68, when the timer has fired before: resolve() on a
\* promise that is already rejected does nothing, so the value goes nowhere and
\* the cache slot keeps what it holds.
SettleAfterTimeout(c, res, started) == c

\* An abandoned fetchNdwEvents settles: its writes to the two reference caches
\* happen, its result is dropped.
AbandonedNdwSettled(op, out) ==
  /\ vildCache' = out.vild
  /\ siteCache' = out.sites
  /\ cache' = SettleAfterTimeout(cache, out.res, op.started)
  /\ abandoned' = abandoned \ {op}

AbandonedNdwSettle(op, w) ==
  /\ op \in abandoned
  /\ op.source = "NDW"
  /\ AbandonedNdwSettled(op, fetchNdwEvents(w, siteCache, vildCache, op.started))
  /\ UNCHANGED <<clock, env, xs, req, issued, refreshes>>

\* An abandoned fetchAnwbEvents settles.
AbandonedAnwbSettled(op, res) ==
  /\ cache' = SettleAfterTimeout(cache, res, op.started)
  /\ abandoned' = abandoned \ {op}

AbandonedAnwbSettle(op, page) ==
  /\ op \in abandoned
  /\ op.source = "ANWB"
  /\ AbandonedAnwbSettled(op, fetchAnwbEvents(page, op.started))
  /\ UNCHANGED <<clock, env, vildCache, siteCache, xs, req, issued, refreshes>>

\* The response has been sent; the slot is free again.
Finish(r) ==
  /\ req[r].pc = "done"
  /\ req' = [req EXCEPT ![r] = IdleReq]
  /\ UNCHANGED <<clock, env, cache, vildCache, siteCache, xs, issued, refreshes,
                 abandoned>>

\* The longest a pass of lookups waits: both endpoints, both bases, 5 s each.
X_PASS_MS == 2 * X_BASES * 5000

LastInstant == CHOOSE t \in Instants : \A u \in Instants : u <= t

\* The time by which the pending timer of request r fires.
Deadline(r) ==
  IF req[r].pc \in {"anwb", "ndw"} THEN req[r].timer + LOAD_TIMEOUT_MS
  ELSE IF req[r].pc = "enrich" THEN req[r].timer + X_PASS_MS
  ELSE LastInstant

\* Time passes, but not beyond a pending timer, and not while a response is
\* being sent.
Tick(t) ==
  /\ t > clock
  /\ \A r \in Slots : t <= Deadline(r) /\ req[r].pc /= "done"
  /\ clock' = t
  /\ UNCHANGED <<env, cache, vildCache, siteCache, xs, req, issued, refreshes,
                 abandoned>>

\* Concurrent requests against a small choice of upstream answers.
Next ==
  \/ \E r \in Slots : Start(r)
  \/ \E r \in Slots, page \in CoreAnwbPages : AnwbSettle(r, page)
  \/ \E r \in Slots : AnwbTimeout(r)
  \/ \E r \in Slots, w \in CoreNdwWorlds : NdwSettle(r, w)
  \/ \E r \in Slots : NdwTimeout(r)
  \/ \E r \in Slots, xw \in CoreXWorlds : EnrichSettle(r, xw)
  \/ \E op \in abandoned, w \in CoreNdwWorlds : AbandonedNdwSettle(op, w)
  \/ \E op \in abandoned, page \in CoreAnwbPages : AbandonedAnwbSettle(op, page)
  \/ \E r \in Slots : Finish(r)
  \/ \E t \in CoreInstants : Tick(t)

Spec == Init /\ [][Next]_vars

\* One request at a time against every upstream answer.
NextSeq ==
  \/ Start(1)
  \/ \E page \in AnwbPages : AnwbSettle(1, page)
  \/ AnwbTimeout(1)
  \/ \E w \in NdwWorlds : NdwSettle(1, w)
  \/ NdwTimeout(1)
  \/ \E xw \in XWorlds : EnrichSettle(1, xw)
  \/ \E op \in abandoned, w \in CoreNdwWorlds : AbandonedNdwSettle(op, w)
  \/ \E op \in abandoned, page \in CoreAnwbPages : AbandonedAnwbSettle(op, page)
  \/ Finish(1)
  \/ \E t \in Instants : Tick(t)

SpecSeq == InitSeq /\ [][NextSeq]_vars

\* A snapshot has just been stored; requests with every query are answered from
\* it.
InitQuery ==
  \E es \in QuerySnapshots :
    /\ clock = 0
    /\ env = [preferred |-> "NDW", token |-> FALSE]
    /\ cache = NextCache(0, es)
    /\ vildCache = None
    /\ siteCache = None
    /\ xs = XInit
    /\ req = [r \in Slots |-> IdleReq]
    /\ issued = 0
    /\ refreshes = 1
    /\ abandoned = {}

NextQuery ==
  \/ \E raw \in QueryInputs : Get(1, {raw})
  \/ Finish(1)

SpecQuery == InitQuery /\ [][NextQuery]_vars

\* The ingestion specification: a request refreshes from the preferred source,
\* the upstream answering with every document of the sets above; no token is
\* set, so what is loaded is stored and served as it is.
InitIngest ==
  \E e \in {v \in Envs : ~v.token} : Loaded0(e)

NextIngest ==
  \/ Start(1)
  \/ \E w \in IngestNdwWorlds : NdwSettle(1, w)
  \/ \E page \in IngestAnwbPages : AnwbSettle(1, page)
  \/ Finish(1)

SpecIngest == InitIngest /\ [][NextIngest]_vars

\* The answers fetchNdwEvents meets in the specification of the aged table: the
\* batches and the single site measurements of the ingestion specification,
\* each with the download of the location table succeeding and failing.
AgedNdwWorlds ==
  { World(TtQuiet, IncBatch(b), <<"ok", "ok", "ok">>, up) :
      b \in IngestBatches, up \in BOOLEAN }
  \cup { World(TtSites(<<m>>), IncBatch(<<>>), <<"ok", "ok", "ok">>, up) :
           m \in IngestMeasurements, up \in BOOLEAN }

\* The specification of the aged table: the process has a location table built
\* at time 0 and the clock is one millisecond short of its time to live, or at
\* it; a request then refreshes from the preferred source.
InitAged ==
  /\ clock \in {VILD_CACHE_TTL_MS - 1, VILD_CACHE_TTL_MS}
  /\ env \in {v \in Envs : ~v.token}
  /\ cache = None
  /\ vildCache = Some([fetchedAt |-> 0,
                       roadBySpecificLocation |-> BuildVildMap(VildRows)])
  /\ siteCache = None
  /\ xs = XInit
  /\ req = [r \in Slots |-> IdleReq]
  /\ issued = 0
  /\ refreshes = 0
  /\ abandoned = {}

NextAged ==
  \/ Start(1)
  \/ \E w \in AgedNdwWorlds : NdwSettle(1, w)
  \/ \E page \in IngestAnwbPages : AnwbSettle(1, page)
  \/ Finish(1)

SpecAged == InitAged /\ [][NextAged]_vars

(************************ properties ***************************************)
\* A request that has its response.
Responded(r) == req[r].pc = "done"

\* The request started load() and load() has settled.
LoadSettled(r) == req[r].load \in {"ok", "failed"}

\* The events a response was built from, before filter and sort.
ServedEvents(r) ==
  IF req[r].load = "ok" THEN req[r].events
  ELSE IF IsSome(req[r].cache) THEN Val(req[r].cache).events
  ELSE <<>>

\* The condition of line 104, written out.
GateOpen(events) ==
  env.token /\ \E i \in 1..Len(events) : events[i].category = "jam"

\* C1.  Stale fallback: a request that found a snapshot, expired, and whose
\* load() failed is answered with success (status 200, ok), stale = true, the
\* warning "Serving stale data: " followed by the message of the failure, the
\* fetchedAt of that snapshot and the events of that snapshot passed through the
\* query of the request.  The snapshot is the one the request read at its start.
C1_StaleFallback ==
  \A r \in Slots :
    (Responded(r) /\ req[r].load = "failed" /\ IsSome(req[r].cache)) =>
      /\ req[r].now - Val(req[r].cache).fetchedAt >= 120000
      /\ req[r].resp.ok
      /\ req[r].resp.status = 200
      /\ req[r].resp.stale
      /\ req[r].failure /= ""
      /\ req[r].resp.warning = Some(<<"Serving stale data: ", req[r].failure>>)
      /\ req[r].resp.fetchedAt = Val(req[r].cache).fetchedAt
      /\ req[r].resp.events = applyFilterSort(Val(req[r].cache).events, req[r].q)
      /\ req[r].resp.error = ""

\* A timed-out refresh answered from a snapshot that has events.
C1_Witness ==
  \E r \in Slots :
    /\ Responded(r) /\ req[r].load = "failed" /\ IsSome(req[r].cache)
    /\ Val(req[r].cache).events /= <<>>
    /\ req[r].failure = "Timeout after 8000ms (fetchNdwEvents)"
    /\ req[r].resp.stale

\* C2.  Fresh state: a request that finds a snapshot less than 120000 ms old is
\* answered at once from that snapshot (its fetchedAt, its events passed through
\* the query) with stale = false and no warning; it never starts load() or the
\* enrichment lookups and never writes the cache.
C2_FreshNoIO ==
  \A r \in Slots :
    (req[r].pc /= "idle" /\ IsSome(req[r].cache)
       /\ req[r].now - Val(req[r].cache).fetchedAt < 120000) =>
      /\ Responded(r)
      /\ req[r].load = "none" /\ ~req[r].enriched /\ ~req[r].wrote
      /\ req[r].resp.ok /\ ~req[r].resp.stale /\ req[r].resp.warning = None
      /\ req[r].resp.fetchedAt = Val(req[r].cache).fetchedAt
      /\ req[r].resp.events = applyFilterSort(Val(req[r].cache).events, req[r].q)

\* A fresh hit on a snapshot that has events.
C2_Witness ==
  \E r \in Slots :
    /\ Responded(r) /\ req[r].load = "none" /\ IsSome(req[r].cache)
    /\ Val(req[r].cache).events /= <<>>
    /\ req[r].resp.count > 0

\* C3.  Cache freshness, one request after the other: when the second request
\* finds the snapshot of the first (whose refresh succeeded), the age of that
\* snapshot is the time between the two requests; one refresh has happened in
\* total when it is 10 s, two when it is 130 s, and in general two iff it is at
\* least 120000 ms.
C3_CacheFreshness ==
  (req[1].seq = 2 /\ IsSome(req[1].cache)) =>
    LET age == req[1].now - Val(req[1].cache).fetchedAt
    IN /\ refreshes \in {1, 2}
       /\ age = 10000 => refreshes = 1
       /\ age = 130000 => refreshes = 2
       /\ refreshes = 2 <=> age >= 120000

\* The second request comes 130 s after the first and has refreshed.
C3_Witness ==
  /\ req[1].seq = 2 /\ IsSome(req[1].cache) /\ Responded(1)
  /\ req[1].now - Val(req[1].cache).fetchedAt = 130000
  /\ refreshes = 2 /\ req[1].load = "ok"

\* C4.  Terminal failure: a request ends in an error response iff its load()
\* failed and it had found no snapshot at its start; the response then has
\* status 500, ok = false and the message of the failure, and the request has
\* not written the cache.
C4_TerminalFailure ==
  \A r \in Slots :
    Responded(r) =>
      /\ ~req[r].resp.ok <=> (req[r].load = "failed" /\ req[r].cache = None)
      /\ ~req[r].resp.ok =>
           /\ req[r].resp.status = 500
           /\ req[r].failure /= ""
           /\ req[r].resp.error = req[r].failure
           /\ req[r].resp.events = <<>>
           /\ ~req[r].wrote

\* A first request whose pipeline failed, with no snapshot stored.
C4_Witness ==
  \E r \in Slots :
    /\ Responded(r) /\ ~req[r].resp.ok /\ req[r].resp.status = 500
    /\ req[r].load = "failed" /\ cache = None

\* C5.  A failed refresh leaves the stored snapshot as it is, and a stored
\* snapshot is never removed: the step in which load() fails does not change
\* the cache, the cache never goes back to empty, and every change of the cache
\* is the write of a request whose load() succeeded.
C5_FailureKeepsSnapshot ==
  [][/\ \A r \in Slots :
          (req[r].load /= "failed" /\ req'[r].load = "failed") => cache' = cache
     /\ IsSome(cache) => IsSome(cache')
     /\ cache' /= cache =>
          \E r \in Slots : ~req[r].wrote /\ req'[r].wrote /\ req'[r].load = "ok"]_vars

\* A refresh has failed and the snapshot it found is still the stored one.
C5_Witness ==
  \E r \in Slots :
    /\ Responded(r) /\ req[r].load = "failed"
    /\ IsSome(cache) /\ cache = req[r].cache
    /\ Val(cache).events /= <<>>

\* C6.  Atomic replace: every change of the cache is one step of one request
\* whose load() succeeded; it stores the pair of that request's start time and
\* that request's events, and the response of that request is fresh (stale =
\* false, no warning) and carries that pair.  A request reads the cache as a
\* whole, at its start.
C6_AtomicReplace ==
  [][/\ cache' /= cache =>
          \E r \in Slots :
            /\ req[r].pc \in {"anwb", "ndw", "enrich"} /\ req'[r].pc = "done"
            /\ req'[r].load = "ok" /\ req'[r].wrote
            /\ cache' = Some([fetchedAt |-> req[r].now, events |-> req'[r].events])
            /\ req'[r].resp.ok /\ ~req'[r].resp.stale
            /\ req'[r].resp.warning = None
            /\ req'[r].resp.fetchedAt = req[r].now
            /\ req'[r].resp.events = applyFilterSort(req'[r].events, req'[r].q)
     /\ \A r \in Slots :
          (req[r].pc = "idle" /\ req'[r].pc /= "idle") => req'[r].cache = cache]_vars

\* A request has replaced a snapshot by its own while another is in flight.
C6_Witness ==
  \E r, r2 \in Slots :
    /\ Responded(r) /\ req[r].wrote /\ IsSome(req[r].cache)
    /\ cache = Some([fetchedAt |-> req[r].now, events |-> req[r].events])
    /\ Val(req[r].cache).events /= req[r].events
    /\ req[r2].pc \in {"anwb", "ndw", "enrich"}

\* C7.  Each source attempt of load() is under its own 8000 ms timer: an attempt
\* never pends more than 8000 ms.  In the default mode load() therefore settles
\* within 8000 ms of its start; in the scrape-preferred mode the fallback gets a
\* timer of its own when the scrape attempt has failed or timed out, and load()
\* settles within 16000 ms.
C7_TimeoutPerAttempt ==
  \A r \in Slots :
    /\ req[r].pc \in {"anwb", "ndw"} => clock - req[r].timer <= 8000
    /\ LoadSettled(r) =>
         req[r].loadEnd - req[r].now <= IF env.preferred = "ANWB" THEN 16000
                                        ELSE 8000

\* In the scrape-preferred mode both timers fired: load() took 16 s.
C7_Witness ==
  \E r \in Slots :
    /\ env.preferred = "ANWB" /\ req[r].load = "failed"
    /\ req[r].loadEnd - req[r].now = 16000
    /\ req[r].failure = "Timeout after 8000ms (fetchNdwEvents(fallback))"

\* C7 as stated: in both modes load() settles within 8000 ms of its start.
C7_Original ==
  \A r \in Slots : LoadSettled(r) => req[r].loadEnd - req[r].now <= 8000

\* C8.  The enrichment lookups are run exactly for a newly loaded event list
\* whose gate is open (token set and a jam among the events), before it is
\* stored; a request answered from the fresh snapshot or from the stale one runs
\* no lookup, whatever the gate.
C8_EnrichOnlyOnRefresh ==
  \A r \in Slots :
    Responded(r) =>
      /\ req[r].enriched <=> (req[r].load = "ok" /\ GateOpen(req[r].events))
      /\ req[r].load \in {"none", "failed"} => ~req[r].enriched

\* A stale fallback on a snapshot with a jam, the token being set: no lookup.
C8_Witness ==
  \E r \in Slots :
    /\ Responded(r) /\ req[r].resp.ok /\ req[r].load = "failed"
    /\ GateOpen(ServedEvents(r)) /\ ~req[r].enriched

\* C8 as stated: every success response whose snapshot opens the gate was
\* preceded by a run of the lookups in its request.
C8_Original ==
  \A r \in Slots :
    (Responded(r) /\ req[r].resp.ok /\ GateOpen(ServedEvents(r))) => req[r].enriched

\* C9.  A failure of the incidents leg of fetchNdwEvents (fetch, gunzip,
\* location table) and a timeout reach the orchestrator: the request is
\* answered stale from the snapshot it found, or with the error when it found
\* none, and does not write the cache.  A failure of the travel-time leg (feed
\* fetch, measurement-site metadata, location table) does not: when the
\* incidents leg succeeds the refresh succeeds without jams and replaces the
\* snapshot.
C9_FailurePropagation ==
  \A r \in Slots :
    Responded(r) =>
      /\ IsSome(req[r].legs.inc) =>
           /\ req[r].load = "failed" /\ req[r].failure = Val(req[r].legs.inc)
      /\ req[r].load = "failed" =>
           /\ ~req[r].wrote
           /\ IsSome(req[r].cache) => (req[r].resp.ok /\ req[r].resp.stale)
           /\ req[r].cache = None => (~req[r].resp.ok /\ req[r].resp.status = 500)
      /\ (IsSome(req[r].legs.jam) /\ req[r].legs.inc = None) =>
           /\ req[r].load = "ok" /\ req[r].wrote
           /\ req[r].resp.ok /\ ~req[r].resp.stale
           /\ \A i \in 1..Len(req[r].events) : req[r].events[i].id[2] /= "traveltime"

\* The location table could not be fetched while detecting jams; the refresh
\* succeeded and replaced a snapshot that had jams.
C9_Witness ==
  \E r \in Slots :
    /\ Responded(r)
    /\ req[r].legs.jam = Some("Failed to fetch VILD6.13.A.zip: 503")
    /\ req[r].legs.inc = None
    /\ req[r].wrote /\ IsSome(req[r].cache)
    /\ \E i \in 1..Len(Val(req[r].cache).events) :
         Val(req[r].cache).events[i].category = "jam"
    /\ \A i \in 1..Len(req[r].events) : req[r].events[i].category /= "jam"
    /\ cache = Some([fetchedAt |-> req[r].now, events |-> req[r].events])

\* C9 as stated: a refresh in which the travel-time leg failed is a failed
\* refresh and does not replace the snapshot.
C9_Original ==
  \A r \in Slots :
    (Responded(r) /\ IsSome(req[r].legs.jam)) =>
      (req[r].load = "failed" /\ ~req[r].wrote)

\* C10 as stated: an incidents payload with neither envelope makes the refresh
\* fail, and the request does not write the cache.
C10_NoEnvelopeIsParseError ==
  \A r \in Slots :
    (Responded(r) /\ req[r].legs.envelope = "none") =>
      (req[r].load = "failed" /\ ~req[r].wrote)

\* The messages of the two timers around fetchNdwEvents.
NdwTimeoutMessages ==
  {"Timeout after 8000ms (fetchNdwEvents)",
   "Timeout after 8000ms (fetchNdwEvents(fallback))"}

\* The messages fetchAnwbEvents rejects with.
ScrapeMessages ==
  {"ANWB scrape: HTTP 503", "ANWB scrape: __NEXT_DATA__ not found",
   "ANWB scrape: traffic-list dehydratedState not found"}

\* C11.  No single-flight: a request that finds no snapshot, or an expired one,
\* starts a load() of its own whatever the other requests are doing, so every
\* request in flight has been counted as a refresh; and the step in which a
\* request stores its snapshot leaves the cache holding exactly that snapshot
\* (its start time, its events), whatever was stored before: the last writer
\* wins.
C11_NoSingleFlight ==
  [][/\ \A r \in Slots :
          (req[r].pc = "idle" /\ req'[r].pc /= "idle"
             /\ ~(IsSome(cache) /\ clock - Val(cache).fetchedAt < 120000)) =>
            /\ req'[r].pc \in {"anwb", "ndw"}
            /\ refreshes' = refreshes + 1
     /\ Cardinality({r \in Slots : req'[r].pc \in {"anwb", "ndw", "enrich"}})
          <= refreshes'
     /\ \A r \in Slots :
          (~req[r].wrote /\ req'[r].wrote) =>
            cache' = Some([fetchedAt |-> req[r].now, events |-> req'[r].events])]_vars

\* Two requests found the same expired snapshot, both refreshed and both
\* succeeded, with different events; the cache holds the snapshot of one of them.
C11_Witness ==
  \E r, r2 \in Slots :
    /\ r /= r2 /\ Responded(r) /\ Responded(r2)
    /\ req[r].wrote /\ req[r2].wrote
    /\ IsSome(req[r].cache) /\ req[r].cache = req[r2].cache
    /\ req[r].events /= req[r2].events
    /\ refreshes = 3
    /\ cache = Some([fetchedAt |-> req[r].now, events |-> req[r].events])

\* C12.  The loser of a timeout race.  When the timer around fetchNdwEvents
\* fires, the request fails with the timeout message (and is answered stale or
\* with the error); when the timer around fetchAnwbEvents fires, the request goes
\* on to the fallback.  In both cases the invocation is not cancelled: it runs
\* on, no sooner abandoned than 8000 ms after its start.  When it settles,
\* whenever that is, the main snapshot, every request and every response are
\* left as they are.
C12_TimeoutLoserDiscarded ==
  [][/\ \A r \in Slots :
          (req[r].pc = "ndw" /\ req'[r].pc = "done"
             /\ req'[r].failure \in NdwTimeoutMessages) =>
            /\ clock - req[r].timer >= 8000
            /\ req'[r].load = "failed" /\ ~req'[r].wrote
            /\ cache' = cache
            /\ IF IsSome(req[r].cache) THEN req'[r].resp.ok /\ req'[r].resp.stale
               ELSE ~req'[r].resp.ok /\ req'[r].resp.error = req'[r].failure
            /\ Cardinality(abandoned) < MaxAbandoned =>
                 abandoned' = abandoned \cup
                   {[seq |-> req[r].seq, source |-> "NDW", started |-> req[r].timer]}
     /\ \A r \in Slots :
          (req[r].pc = "anwb" /\ req'[r].scrape = "timeout") =>
            /\ clock - req[r].timer >= 8000
            /\ req'[r].pc = "ndw" /\ req'[r].timer = clock
            /\ cache' = cache
            /\ Cardinality(abandoned) < MaxAbandoned =>
                 abandoned' = abandoned \cup
                   {[seq |-> req[r].seq, source |-> "ANWB", started |-> req[r].timer]}
     /\ (abandoned' /= abandoned /\ abandoned' \subseteq abandoned) =>
          /\ cache' = cache
          /\ req' = req
          /\ xs' = xs
     /\ \A op \in abandoned' : clock' - op.started >= 8000]_vars

\* The first request timed out and got the error; the invocation it abandoned
\* has since settled (it has loaded the location table), and no snapshot is
\* stored.
C12_Witness ==
  /\ issued = 1 /\ Responded(1)
  /\ req[1].failure = "Timeout after 8000ms (fetchNdwEvents)"
  /\ ~req[1].resp.ok
  /\ abandoned = {}
  /\ IsSome(vildCache)
  /\ cache = None

\* C12 as stated: a request one of whose source invocations lost the race
\* against its timer ends in the timeout failure.
C12_Original ==
  \A r \in Slots :
    (Responded(r) /\ (req[r].scrape = "timeout"
                        \/ req[r].failure \in NdwTimeoutMessages)) =>
      /\ req[r].load = "failed"
      /\ req[r].failure \in NdwTimeoutMessages
      /\ ~req[r].wrote

\* C13.  Source order.  In the default mode the scrape source is never invoked:
\* no request is ever at the scrape attempt, and what load() gives comes from
\* the primary feed.  In the scrape-preferred mode the scrape attempt comes
\* first; fetchNdwEvents is pending or has settled only when the scrape attempt
\* has failed or timed out, and then the outcome of load() is that of
\* fetchNdwEvents (its events, or its failure); when the scrape attempt succeeds
\* its events are the outcome and fetchNdwEvents is not invoked.
C13_SourceOrder ==
  \A r \in Slots :
    /\ env.preferred /= "ANWB" =>
         /\ req[r].scrape = "none" /\ req[r].pc /= "anwb"
         /\ \A i \in 1..Len(req[r].loaded) : req[r].loaded[i].source = "NDW"
         /\ \A op \in abandoned : op.source = "NDW"
    /\ env.preferred = "ANWB" =>
         /\ req[r].pc = "anwb" <=> req[r].scrape = "pending"
         /\ req[r].pc = "ndw" => req[r].scrape \in {"failed", "timeout"}
         /\ LoadSettled(r) => req[r].scrape \in {"ok", "failed", "timeout"}
         /\ req[r].scrape = "ok" =>
              /\ req[r].load = "ok" /\ req[r].legs = NoLegs
              /\ \A i \in 1..Len(req[r].loaded) : req[r].loaded[i].source = "ANWB"
         /\ (req[r].scrape \in {"failed", "timeout"} /\ LoadSettled(r)) =>
              /\ \A i \in 1..Len(req[r].loaded) : req[r].loaded[i].source = "NDW"
              /\ req[r].load = "failed" => req[r].failure \notin ScrapeMessages
         /\ req[r].scrape = "timeout" => req[r].timer - req[r].now >= 8000

\* In the scrape-preferred mode the scrape attempt failed and the request was
\* answered with the events of the primary feed.
C13_Witness ==
  \E r \in Slots :
    /\ env.preferred = "ANWB" /\ Responded(r)
    /\ req[r].scrape = "failed" /\ req[r].load = "ok"
    /\ req[r].loaded /= <<>>
    /\ \A i \in 1..Len(req[r].loaded) : req[r].loaded[i].source = "NDW"

\* An event list has a jam.
HasJam(events) == \E i \in 1..Len(events) : events[i].category = "jam"

\* C14.  Enrichment gate.  When load() has given its events, the lookups are
\* started iff the token is set and one of the events is a jam.  Otherwise the
\* request stores and serves the events as loaded in that same step and the
\* state of the X client is left as it is.  The state of the X client changes
\* only in the step that ends the lookups of a request whose gate was open.
C14_EnrichmentGate ==
  [][/\ \A r \in Slots :
          (req[r].load /= "ok" /\ req'[r].load = "ok") =>
            IF env.token /\ HasJam(req'[r].loaded)
              THEN /\ req'[r].pc = "enrich" /\ req'[r].enriched
                   /\ xs' = xs /\ cache' = cache
              ELSE /\ req'[r].pc = "done" /\ ~req'[r].enriched
                   /\ xs' = xs
                   /\ req'[r].xpass = NoPass
                   /\ req'[r].events = req'[r].loaded
                   /\ cache' = Some([fetchedAt |-> req[r].now,
                                     events |-> req'[r].loaded])
     /\ xs' /= xs =>
          \E r \in Slots :
            /\ req[r].pc = "enrich" /\ req'[r].pc = "done"
            /\ env.token /\ HasJam(req[r].loaded)]_vars

\* The token is set, load() gave events none of which is a jam: no lookup, the
\* events are stored as loaded.
C14_Witness ==
  \E r \in Slots :
    /\ Responded(r) /\ req[r].load = "ok" /\ env.token
    /\ req[r].loaded /= <<>> /\ ~HasJam(req[r].loaded)
    /\ ~req[r].enriched /\ xs = XInit
    /\ cache = Some([fetchedAt |-> req[r].now, events |-> req[r].loaded])

C16_LastErrorRetained ==
  [][/\ IsSome(getXLastError(xs)) => IsSome(getXLastError(xs'))
     /\ \A r \in Slots :
          (req[r].pc = "enrich" /\ req'[r].pc = "done") =>
            IF req'[r].xpass.failed /= {}
              THEN /\ getXLastError(xs') = req'[r].xpass.err
                   /\ Val(getXLastError(xs')).at = req[r].timer
              ELSE getXLastError(xs') = getXLastError(xs)
     /\ getXLastError(xs') /= getXLastError(xs) =>
          \E r \in Slots : req[r].pc = "enrich" /\ req'[r].xpass.failed /= {}
     /\ \A r \in Slots :
          (req[r].pc /= "done" /\ req'[r].pc = "done" /\ req'[r].resp.ok) =>
            req'[r].resp.xDebug = IF req'[r].q.xdebug THEN getXLastError(xs')
                                  ELSE None]_vars

\* An earlier request's lookups failed; the lookups of this request succeeded
\* and attached a post, and the accessor still returns the earlier failure.
C16_Witness ==
  \E r \in Slots :
    /\ Responded(r) /\ req[r].enriched /\ req[r].xpass.failed = {}
    /\ \E i \in 1..Len(req[r].events) : IsSome(req[r].events[i].externalInfo)
    /\ IsSome(getXLastError(xs))
    /\ Val(getXLastError(xs)).at < req[r].timer
    /\ req[r].q.xdebug /\ req[r].resp.xDebug = getXLastError(xs)

Eligible(t, rc, at) ==
  /\ RoadRegexTest(t.text, rc)
  /\ IsSome(t.created_at) /\ Val(t.created_at).valid
  /\ Val(t.created_at).ts >= at - 3600000

\* C18 as stated: the post a jam event carries when its request is answered is
\* the most recent of the posts of the timeline that name its road and are at
\* most one hour old, and is itself at most one hour old.
C18_MostRecentPost ==
  \A r \in Slots :
    (Responded(r) /\ req[r].load = "ok" /\ req[r].enriched) =>
      \A i \in 1..Len(req[r].events) :
        IsSome(req[r].events[i].externalInfo) =>
          /\ Val(req[r].events[i].externalInfo).updated >= clock - 3600000
          /\ \A k \in 1..Len(TweetList) :
               Eligible(TweetList[k], req[r].events[i].roadCode, clock) =>
                 Val(TweetList[k].created_at).ts
                   <= Val(req[r].events[i].externalInfo).updated

\* A request answered from the fresh snapshot it found.
FreshHit(r) == Responded(r) /\ req[r].load = "none" /\ IsSome(req[r].cache)

\* A search parameter `road` that is a number: digits, possibly between blanks.
RoadAsked(raw) ==
  IF IsSome(raw.road) /\ Trim(Val(raw.road)) /= <<>> /\ AllDigits(Trim(Val(raw.road)))
    THEN Some(DigitsToNat(Trim(Val(raw.road))))
    ELSE None

\* A search parameter `type` that is a or n in either case.
TypeAsked(raw) ==
  IF IsSome(raw.type) /\ ToUpper(Val(raw.type)) \in {<<"A">>, <<"N">>}
    THEN Some(ToUpper(Val(raw.type))[1])
    ELSE None

\* A search parameter `category` that is jam or accident.
CategoryAsked(raw) ==
  IF raw.category \in {Some("jam"), Some("accident")} THEN raw.category ELSE None

\* The events of a sequence, as a set.
Range(seq) == {seq[i] : i \in 1..Len(seq)}

\* C19 as stated: the response holds exactly the events of the snapshot that
\* agree with every search parameter that is given and recognised; a parameter
\* that is absent or not recognised removes no event.
C19_ConjunctiveFilter ==
  \A r \in Slots :
    FreshHit(r) =>
      LET raw == req[r].q.raw
          snap == Val(req[r].cache).events
      IN /\ Range(req[r].resp.events) =
              {e \in Range(snap) :
                 /\ TypeAsked(raw) = None \/ e.roadType = Val(TypeAsked(raw))
                 /\ RoadAsked(raw) = None \/ e.roadNumber = Val(RoadAsked(raw))
                 /\ CategoryAsked(raw) = None \/ e.category = Val(CategoryAsked(raw))}
         /\ req[r].resp.count = Cardinality(Range(req[r].resp.events))

\* The sort keys of the road order: type (A first), number, delay and length
\* (both descending, a missing one counting as -1).
RoadKey(e) ==
  << IF e.roadType = "A" THEN 0 ELSE 1, e.roadNumber,
     0 - (IF IsSome(e.delayMin) THEN Val(e.delayMin) ELSE -1),
     0 - (IF IsSome(e.lengthKm) THEN Val(e.lengthKm) ELSE -1) >>

\* Lexicographic order on the keys.
KeyLess(k1, k2) ==
  \E n \in 1..4 : k1[n] < k2[n] /\ \A m \in 1..(n - 1) : k1[m] = k2[m]

\* The place of an event in a snapshot that holds it once.
PlaceIn(snap, e) == CHOOSE k \in 1..Len(snap) : snap[k] = e

\* C20.  Sorted by road, the response is a rearrangement of the filtered events
\* in which every event stands before every event with a greater key (type with
\* A first, then number ascending, then delay descending, then length
\* descending, a missing delay or length counting as -1), and events with equal
\* keys stand in their order in the snapshot.  A8 (delay 20), A8 (delay 5) and
\* N35 (delay 99), in whatever order the snapshot holds them, come out as A8/20,
\* A8/5, N35/99.
C20_RoadOrder ==
  \A r \in Slots :
    (FreshHit(r) /\ req[r].q.sort = Some("road")) =>
      LET snap == Val(req[r].cache).events
          out == req[r].resp.events
      IN /\ Range(out) \subseteq Range(snap)
         /\ \A i, j \in 1..Len(out) : i /= j => out[i] /= out[j]
         /\ (req[r].q.type = None /\ req[r].q.road = None /\ req[r].q.category = None)
              => Len(out) = Len(snap)
         /\ \A i, j \in 1..Len(out) :
              i < j =>
                /\ ~KeyLess(RoadKey(out[j]), RoadKey(out[i]))
                /\ RoadKey(out[i]) = RoadKey(out[j]) =>
                     PlaceIn(snap, out[i]) < PlaceIn(snap, out[j])
         /\ ({e.id[3] : e \in Range(snap)} = {"1", "2", "3"} /\ Len(out) = 3) =>
              /\ out[1].id[3] = "1" /\ out[1].delayMin = Some(20)
              /\ out[2].id[3] = "2" /\ out[2].delayMin = Some(5)
              /\ out[3].id[3] = "3" /\ out[3].delayMin = Some(99)

\* The snapshot holds N35/99, then the second A8/20, then the first; sorted by
\* road the two A8 jams come first, in the order of the snapshot.
C20_Witness ==
  /\ FreshHit(1) /\ req[1].q.sort = Some("road")
  /\ Len(Val(req[1].cache).events) = 3
  /\ Val(req[1].cache).events[1].id[3] = "3"
  /\ Val(req[1].cache).events[2].id[3] = "4"
  /\ Val(req[1].cache).events[3].id[3] = "1"
  /\ Len(req[1].resp.events) = 3
  /\ req[1].resp.events[1].id[3] = "4"
  /\ req[1].resp.events[2].id[3] = "1"
  /\ req[1].resp.events[3].id[3] = "3"

\* The field a response sorted by delay (the default) or by length is ordered by.
SortField(e, q) == IF q.sort = Some("length") THEN e.lengthKm ELSE e.delayMin

\* C21.  A response sorted by delay (sort=delay or no recognised sort) or by
\* length is a rearrangement of the filtered events that is descending in that
\* field from the first event to the last, and every event that lacks the field
\* stands after every event that has it.
C21_DescendingOrder ==
  \A r \in Slots :
    (FreshHit(r) /\ req[r].q.sort \in {None, Some("delay"), Some("length")}) =>
      LET snap == Val(req[r].cache).events
          out == req[r].resp.events
          q == req[r].q
      IN /\ Range(out) \subseteq Range(snap)
         /\ \A i, j \in 1..Len(out) : i /= j => out[i] /= out[j]
         /\ (q.type = None /\ q.road = None /\ q.category = None)
              => Len(out) = Len(snap)
         /\ \A i, j \in 1..Len(out) :
              i < j =>
                /\ IsSome(SortField(out[j], q)) => IsSome(SortField(out[i], q))
                /\ (IsSome(SortField(out[i], q)) /\ IsSome(SortField(out[j], q)))
                     => Val(SortField(out[i], q)) >= Val(SortField(out[j], q))

\* The snapshot holds the event without length, then the jam of 1 km, then the
\* jam of 3 km; sorted by length they come out 3 km, 1 km, no length.
C21_Witness ==
  /\ FreshHit(1) /\ req[1].q.sort = Some("length")
  /\ Len(Val(req[1].cache).events) = 3
  /\ Val(req[1].cache).events[1].id[3] = "5"
  /\ Val(req[1].cache).events[2].id[3] = "2"
  /\ Val(req[1].cache).events[3].id[3] = "1"
  /\ Len(req[1].resp.events) = 3
  /\ req[1].resp.events[1].lengthKm = Some(3000)
  /\ req[1].resp.events[2].lengthKm = Some(1000)
  /\ req[1].resp.events[3].lengthKm = None

\* C22.  Idempotence: filter and sort applied, with the query of the request, to
\* the events of its response give the events of the response again, in the
\* same order.
C22_Idempotent ==
  \A r \in Slots :
    FreshHit(r) =>
      applyFilterSort(req[r].resp.events, req[r].q) = req[r].resp.events

\* A response that filtered an event out and moved the others, two of which
\* are equal on every sort key.
C22_Witness ==
  /\ FreshHit(1)
  /\ Len(Val(req[1].cache).events) = 3
  /\ Len(req[1].resp.events) = 2
  /\ req[1].resp.events[1].id[3] = "4"
  /\ req[1].resp.events[2].id[3] = "1"
  /\ Val(req[1].cache).events[1].id[3] = "3"
  /\ applyFilterSort(req[1].resp.events, req[1].q) = req[1].resp.events

LoadedFrom(r, feed) ==
  LET FromFeed(e) == e.source = "NDW" /\ e.id[2] = feed
  IN SelectSeq(req[r].loaded, FromFeed)

\* The events load() gave request r that the scrape produced.
Scraped(r) ==
  LET FromScrape(e) == e.source = "ANWB"
  IN SelectSeq(req[r].loaded, FromScrape)

\* The raw delay, in seconds, of the site measurement of a site.
RawDelaySec(siteId) ==
  LET sm == CHOOSE x \in IngestMeasurements
                          \cup {ManyMeasurements[i] : i \in 1..ManySites} :
                  x.siteId = Some(siteId)
  IN Val(sm.cur) - Val(sm.ref)

\* C24, amended.  The delay of a jam is the multiple of 5 minutes nearest to the
\* raw delay of its site, and at least 5: 12.4 minutes gives 10, 13.0 minutes
\* gives 15, 4.9 minutes gives 5 and is a jam; a site whose raw delay is 2.4
\* minutes, which rounds to 0, gives no jam.
C24_DelayBuckets ==
  \A r \in Slots :
    \A i \in 1..Len(LoadedFrom(r, "traveltime")) :
      LET e == LoadedFrom(r, "traveltime")[i]
          m == Val(e.delayMin)
      IN /\ IsSome(e.delayMin)
         /\ m % 5 = 0
         /\ m >= 5
         /\ m * 60 - RawDelaySec(e.id[3]) \in -150..150
         /\ e.id[3] = "s1" => m = 10
         /\ e.id[3] = "s4" => m = 15
         /\ e.id[3] = "s2" => m = 5
         /\ e.id[3] /= "s5"

\* The sites with raw delays of 4.9 and 13.0 minutes, in this order in the feed:
\* two jams, of 15 and of 5 minutes.
C24_Witness ==
  /\ req[1].load = "ok"
  /\ Len(LoadedFrom(1, "traveltime")) = 2
  /\ LoadedFrom(1, "traveltime")[1].id[3] = "s4"
  /\ LoadedFrom(1, "traveltime")[1].delayMin = Some(15)
  /\ LoadedFrom(1, "traveltime")[2].id[3] = "s2"
  /\ LoadedFrom(1, "traveltime")[2].delayMin = Some(5)

\* C24 as stated: 12.4 minutes gives 10, 13.0 minutes gives 15, and the sites
\* whose raw delay is below 5 minutes (4.9 and 2.4 minutes) give no jam.
C24_Original ==
  \A r \in Slots :
    \A i \in 1..Len(LoadedFrom(r, "traveltime")) :
      LET e == LoadedFrom(r, "traveltime")[i]
      IN /\ e.id[3] = "s1" => e.delayMin = Some(10)
         /\ e.id[3] = "s4" => e.delayMin = Some(15)
         /\ RawDelaySec(e.id[3]) >= 5 * 60

\* C25 as stated: the record with duration PT1H5M has a delay of 65 minutes,
\* the one with PT90S of 2 minutes, the one whose duration element holds 300 of
\* 5 minutes, as does a duration that is the number 300.
C25_DurationParsing ==
  /\ parseDelayMin([duration |-> Some(NumberValue(300))]) = Some(5)
  /\ \A r \in Slots :
       \A i \in 1..Len(LoadedFrom(r, "incidents")) :
         LET e == LoadedFrom(r, "incidents")[i]
         IN /\ e.id[4] = "a" => e.delayMin = Some(65)
            /\ e.id[4] = "c" => e.delayMin = Some(2)
            /\ e.id[4] = "b" => e.delayMin = Some(5)

\* The segment of the ingestion specification with the given id.
SegmentOf(id) == CHOOSE g \in IngestSegments : g.id = id

\* C26.  The record with a length of 15400 m has a lengthKm of 15.4.  A scraped
\* event has the distance of its segment divided by 1000 as lengthKm when the
\* distance is greater than 50 and the distance itself when it is at most 50
\* (30 gives 30 km, 50 gives 50 km, 1100 gives 1.1 km); its delayMin is the
\* delay of the segment divided by 60 and rounded when the delay is greater
\* than 180 (960 gives 16, 181 gives 3) and the delay itself when it is at most
\* 180; a segment without distance or delay gives an event without.
C26_Units ==
  \A r \in Slots :
    /\ \A i \in 1..Len(LoadedFrom(r, "incidents")) :
         LoadedFrom(r, "incidents")[i].id[4] = "a" =>
           LoadedFrom(r, "incidents")[i].lengthKm = Some(15400)
    /\ \A i \in 1..Len(Scraped(r)) :
         LET e == Scraped(r)[i]
             seg == SegmentOf(e.id[3])
         IN /\ IsSome(e.lengthKm) <=> IsSome(seg.distance)
            /\ IsSome(e.delayMin) <=> IsSome(seg.delay)
            /\ (IsSome(seg.distance) /\ Val(seg.distance) > 50)
                 => Val(e.lengthKm) = Val(seg.distance)
            /\ (IsSome(seg.distance) /\ Val(seg.distance) <= 50)
                 => Val(e.lengthKm) = 1000 * Val(seg.distance)
            /\ (IsSome(seg.delay) /\ Val(seg.delay) > 180)
                 => 60 * Val(e.delayMin) - Val(seg.delay) \in -30..30
            /\ (IsSome(seg.delay) /\ Val(seg.delay) <= 180)
                 => e.delayMin = seg.delay
            /\ e.id[3] = "g1" => e.lengthKm = Some(1100) /\ e.delayMin = Some(16)
            /\ e.id[3] = "g2" => e.lengthKm = Some(30000) /\ e.delayMin = Some(5)
            /\ e.id[3] = "g5" => e.lengthKm = Some(50000) /\ e.delayMin = Some(3)

\* The scrape gave the segment of 30 km and 5 minutes and the one of 1100 m and
\* 960 s.
C26_Witness ==
  /\ req[1].load = "ok"
  /\ Len(Scraped(1)) = 2
  /\ Scraped(1)[1].id[3] = "g2"
  /\ Scraped(1)[1].lengthKm = Some(30000)
  /\ Scraped(1)[2].id[3] = "g1"
  /\ Scraped(1)[2].lengthKm = Some(1100)
  /\ Scraped(1)[2].delayMin = Some(16)

RECURSIVE NatToDigits(_)
\* The decimal digits of a natural number.
NatToDigits(n) ==
  IF n < 10 THEN <<CHOOSE c \in Digits : DigitVal(c) = n>>
  ELSE NatToDigits(n \div 10) \o <<CHOOSE c \in Digits : DigitVal(c) = n % 10>>

\* roadType is A or N, roadNumber a positive integer, and roadCode the type
\* followed by the number.
WellIdentified(e) ==
  /\ e.roadType \in {"A", "N"}
  /\ e.roadNumber \in Nat \ {0}
  /\ e.roadCode = <<e.roadType>> \o NatToDigits(e.roadNumber)

\* C27 as stated: every event a producer gave and every event of the stored
\* snapshot has roadType A or N, a positive integer roadNumber, and roadCode
\* equal to roadType followed by roadNumber.
C27_EventIdentity ==
  /\ \A r \in Slots :
       \A i \in 1..Len(req[r].loaded) : WellIdentified(req[r].loaded[i])
  /\ IsSome(cache) =>
       \A i \in 1..Len(Val(cache).events) : WellIdentified(Val(cache).events[i])

\* lengthKm, in thousandths, is not negative and a multiple of 100 (one
\* decimal); delayMin is a natural number.
WellMeasured(e) ==
  /\ IsSome(e.lengthKm) => Val(e.lengthKm) >= 0 /\ Val(e.lengthKm) % 100 = 0
  /\ IsSome(e.delayMin) => Val(e.delayMin) \in Nat

\* C28 as stated: for every event a producer gave, lengthKm when present is at
\* least 0 with at most one decimal, and delayMin when present is a
\* non-negative integer.
C28_NumericFields ==
  \A r \in Slots :
    \A i \in 1..Len(req[r].loaded) : WellMeasured(req[r].loaded[i])

\* The records of the ingestion specification no strategy finds a road for.
Unresolvable == {"u", "v"}

\* The ids of the records of batch b that a road is found for, in their order.
ResolvedIds(b) ==
  LET Resolved(sr) == sr.id \notin Unresolvable
      kept == SelectSeq(b, Resolved)
  IN [i \in 1..Len(kept) |-> kept[i].id]

\* C29.  No event comes from a record for which no strategy finds a road (no
\* road name of the shape, no match in the comment, no location code the table
\* knows), and the events of a batch are those of its other records, all of
\* them, in the order of the batch: a dropped record ends nothing.
C29_UnresolvedDropped ==
  \A r \in Slots :
    LET inc == LoadedFrom(r, "incidents")
    IN /\ \A i \in 1..Len(inc) : inc[i].id[4] \notin Unresolvable
       /\ inc /= <<>> =>
            \E b \in IngestBatches :
              /\ BatchId(b) = inc[1].id[3]
              /\ [i \in 1..Len(inc) |-> inc[i].id[4]] = ResolvedIds(b)

\* The batch of the record on the A8, the record with nothing to find a road
\* by, and the record with location codes: two events, of the first and the
\* third.
C29_Witness ==
  /\ req[1].load = "ok"
  /\ Len(LoadedFrom(1, "incidents")) = 2
  /\ LoadedFrom(1, "incidents")[1].id[3] = "auc"
  /\ LoadedFrom(1, "incidents")[1].id[4] = "a"
  /\ LoadedFrom(1, "incidents")[2].id[4] = "c"
  /\ LoadedFrom(1, "incidents")[2].roadCode = <<"A", "1", "0">>

\* The ids of the site records of measurement_current.xml.gz.
FeedSiteIds == UNION { {MsFeed[c][k].id : k \in 1..Len(MsFeed[c])} : c \in 1..Len(MsFeed) }

\* The ids the travel-time leg asks the resolver for, on the answers w.
WantedSites(w) ==
  LET top == TopJams(JamCandidates(w.traveltime.doc.siteMeasurements))
  IN IF w.traveltime.httpOk /\ w.traveltime.gzipOk /\ w.traveltime.doc.env = "v2"
       THEN {top[i].siteId : i \in 1..Len(top)}
       ELSE {}

\* C30 as stated: whenever the travel-time leg of a refresh has had its sites
\* resolved, the map it got has an entry for every wanted id that is a site
\* record of the metadata feed and none for a wanted id that is not, also when
\* the call was answered from the cache an earlier call filled.
C30_ResolverContract ==
  [][\A w \in NdwWorlds :
       (NdwSettle(1, w) /\ req'[1].legs.jam = None /\ w.traveltime.httpOk) =>
         /\ IsSome(siteCache')
         /\ \A id \in WantedSites(w) :
              id \in FeedSiteIds <=> id \in DOMAIN Val(siteCache').sites]_vars

\* The ids of the site records in the first k chunks of the measurement-site
\* feed.
SitesUpTo(k) ==
  UNION { {MsFeed[c][i].id : i \in 1..Len(MsFeed[c])} : c \in 1..k }

RoundedDelay(sm) == roundTo5Min(Val(sm.cur) - Val(sm.ref), 60)

\* Whether a site measurement qualifies as a jam.
Qualifies(sm) == IsSome(sm.siteId) /\ RoundedDelay(sm) >= 5

\* The jam events among the events a request loaded, after a step.
JamsLoaded(loaded) ==
  LET Measured(e) == e.source = "NDW" /\ e.id[2] = "traveltime"
  IN SelectSeq(loaded, Measured)

\* What C34 asks of a refresh that met the site measurements sms, asked the
\* resolver for ids, got the map sites and loaded the jam events jams.
FanOutCapped(sms, ids, sites, jams) ==
  LET q == {i \in 1..Len(sms) : Qualifies(sms[i])}
      in == {i \in q : Val(sms[i].siteId) \in ids}
  IN /\ Cardinality(ids) <= MAX_JAMS
     /\ ids \subseteq {Val(sms[i].siteId) : i \in q}
     /\ \A i \in q \ in :
          /\ Cardinality(in) >= MAX_JAMS
          /\ \A j \in in : RoundedDelay(sms[j]) >= RoundedDelay(sms[i])
     /\ Len(jams) <= MAX_JAMS
     /\ \A k \in 1..Len(jams) :
          /\ jams[k].category = "jam"
          /\ IsSome(jams[k].delayMin)
          /\ Val(jams[k].delayMin) % 5 = 0 /\ Val(jams[k].delayMin) >= 5
          /\ jams[k].id[3] \in ids
          /\ jams[k].id[3] \in DOMAIN sites
          /\ sites[jams[k].id[3]].roadCode = Some(jams[k].roadCode)
          /\ \E i \in in : /\ Val(sms[i].siteId) = jams[k].id[3]
                            /\ RoundedDelay(sms[i]) = Val(jams[k].delayMin)

\* C34: in every refresh whose travel-time leg succeeds, the resolver is asked
\* for the sites of at most MAX_JAMS candidates, a qualifying site is left out
\* only when MAX_JAMS candidates of at least its rounded delay are in, and every
\* jam event loaded is that of a site asked for whose road the resolver gave:
\* at most MAX_JAMS events, of category jam, with a delay that is a multiple of
\* 5 and at least 5.
C34_FanOutCap ==
  [][\A w \in IngestNdwWorlds :
       (NdwSettle(1, w) /\ req'[1].legs.jam = None) =>
         /\ IsSome(siteCache')
         /\ FanOutCapped(w.traveltime.doc.siteMeasurements,
                         req'[1].legs.resolver.ids, Val(siteCache').sites,
                         JamsLoaded(req'[1].loaded))]_vars

\* A refresh in which more than MAX_JAMS sites qualified: the resolver was asked
\* for MAX_JAMS of them and jam events came out.
C34_Witness ==
  /\ Cardinality(req[1].legs.resolver.ids) = MAX_JAMS
  /\ ManySites > MAX_JAMS
  /\ req[1].legs.jam = None
  /\ JamsLoaded(req[1].loaded) /= <<>>

\* The road each record of the ingestion specification resolves to: that of
\* its road name where it has one of the shape, else that of its comment, else
\* that of the first of its location codes, in the order the traversal finds
\* them, that the table maps (7200 is on the A10, 7300 on the N35).
ChainRoad(id) ==
  CASE id = "a" -> <<"A", "8">>
    [] id = "b" -> <<"N", "3", "5">>
    [] id = "c" -> <<"A", "1", "0">>
    [] id = "d" -> <<"A", "1", "0">>
    [] id = "z" -> <<"A", "0", "8">>

\* The records whose road name and comment both fail and that have a location
\* code.
NeedTable == {"c", "d", "v"}

\* C33: the events of every batch carry the road the first successful
\* strategy gives, in the order road name, comment, location codes; and the
\* location table is obtained in a refresh exactly when the batch has a record
\* whose road name and comment both failed and that has a location code.
C33_StrategyChain ==
  [][\A b \in IngestBatches :
       (vildCache = None
        /\ NdwSettle(1, World(TtQuiet, IncBatch(b), <<"ok", "ok", "ok">>, TRUE))) =>
         /\ \A i \in 1..Len(req'[1].loaded) :
              req'[1].loaded[i].roadCode = ChainRoad(req'[1].loaded[i].id[4])
         /\ IsSome(vildCache') <=> \E i \in 1..Len(b) : b[i].id \in NeedTable]_vars

\* The batch of the record with the three signs, the record with comment and
\* location code and the record with location codes only: three events, on the
\* A8, the N35 and the A10, and the table was obtained.
C33_Witness ==
  /\ Len(LoadedFrom(1, "incidents")) = 3
  /\ LoadedFrom(1, "incidents")[1].id[3] = "abd"
  /\ LoadedFrom(1, "incidents")[1].roadCode = <<"A", "8">>
  /\ LoadedFrom(1, "incidents")[2].roadCode = <<"N", "3", "5">>
  /\ LoadedFrom(1, "incidents")[3].roadCode = <<"A", "1", "0">>
  /\ IsSome(vildCache)

\* The error of the last of the attempts of the retry loop, all of which failed.
LastFetchError(tries) ==
  IF tries[MS_FETCH_ATTEMPTS] = "net" THEN "fetch failed"
  ELSE "Failed to fetch measurement_current.xml.gz: 503"

\* C36 as stated: when no attempt of the retry loop got a success response,
\* the travel-time leg fails with the error of the last attempt, no response
\* body was piped into the parser and the measurement-site cache is as it was.
C36_RetryContract ==
  [][\A w \in NdwWorlds :
       (NdwSettle(1, w) /\ req'[1].legs.resolver.fetch \in {"none", "http"}) =>
         /\ req'[1].legs.jam = Some(LastFetchError(w.msTries))
         /\ ~req'[1].legs.resolver.piped
         /\ siteCache' = siteCache]_vars

\* C37 as stated: fetchedAt of the stored snapshot never decreases.
C37_FetchedAtMonotone ==
  [][(IsSome(cache) /\ IsSome(cache')) =>
       Val(cache').fetchedAt >= Val(cache).fetchedAt]_vars

\* A request r gets its answer in this step, its refresh having failed.
FailsNow(r) ==
  req[r].pc /= "done" /\ req'[r].pc = "done" /\ req'[r].load = "failed"

\* C38: the step in which a request whose refresh failed gets its answer
\* leaves the stored snapshot as it is, and when the request read a snapshot at
\* its start the answer is that snapshot, with its fetchedAt and its events
\* (filtered and sorted for the query), marked stale, whatever is stored by then.
C38_FailureServesOwnSnapshot ==
  [][\A r \in Slots :
       FailsNow(r) =>
         /\ cache' = cache
         /\ ~req'[r].wrote
         /\ IsSome(req[r].cache) =>
              /\ req'[r].resp.ok
              /\ req'[r].resp.stale
              /\ req'[r].resp.fetchedAt = Val(req[r].cache).fetchedAt
              /\ req'[r].resp.events =
                   applyFilterSort(Val(req[r].cache).events, req'[r].q)]_vars

\* A request whose refresh failed has answered with the snapshot it read at its
\* start, while a newer one, stored by a concurrent request, is in the cache.
C38_Witness ==
  \E r \in Slots :
    /\ req[r].pc = "done" /\ req[r].load = "failed"
    /\ IsSome(req[r].cache) /\ IsSome(cache)
    /\ Val(cache).fetchedAt > Val(req[r].cache).fetchedAt
    /\ req[r].resp.ok /\ req[r].resp.stale
    /\ req[r].resp.fetchedAt = Val(req[r].cache).fetchedAt

\* The snapshot a successful response was built from: the one the request
\* stored, else the one it read at its start.
ServedSnapshot(r) ==
  IF req[r].wrote THEN [fetchedAt |-> req[r].now, events |-> req[r].events]
  ELSE Val(req[r].cache)

\* C39: every successful response has a warning exactly when it is stale, the
\* fetchedAt of the snapshot whose events it carries, and a count that is the
\* number of events it returns after filtering.
C39_ResponseCoherent ==
  \A r \in Slots :
    (req[r].pc = "done" /\ req[r].resp.ok) =>
      /\ IsSome(req[r].resp.warning) <=> req[r].resp.stale
      /\ req[r].resp.stale <=> req[r].load = "failed"
      /\ req[r].wrote \/ IsSome(req[r].cache)
      /\ req[r].resp.fetchedAt = ServedSnapshot(r).fetchedAt
      /\ req[r].resp.events = applyFilterSort(ServedSnapshot(r).events, req[r].q)
      /\ req[r].resp.count = Len(req[r].resp.events)

\* A stale response, with its warning, whose filter left out events of the
\* snapshot.
C39_Witness ==
  \E r \in Slots :
    /\ req[r].pc = "done" /\ req[r].resp.ok
    /\ req[r].resp.stale /\ IsSome(req[r].resp.warning)
    /\ req[r].resp.count < Len(Val(req[r].cache).events)
    /\ req[r].resp.count > 0

\* C35 as stated: in an enrichment pass that starts with cold caches and looks
\* up two or more road codes, the user id is asked of the API at most once and
\* so is the post list.
C35_OneListFetchPerPass ==
  [][\A r \in Slots : \A xw \in XWorlds :
       (EnrichSettle(r, xw) /\ xs = XInit
        /\ Len(JamRoadCodes(req[r].events)) >= 2) =>
         /\ EnrichLookups(JamRoadCodes(req[r].events), env.token, xs,
                          req[r].timer, clock, xw).ids <= 1
         /\ EnrichLookups(JamRoadCodes(req[r].events), env.token, xs,
                          req[r].timer, clock, xw).lists <= 1]_vars

\* The error of getVildRoadMap when the download of the table fails.
TableError == "Failed to fetch VILD6.13.A.zip: 503"

\* C32 as stated: while a location table is present, however old, no leg of a
\* refresh fails with the error of the table's download.
C32_StaleTablePreferred ==
  IsSome(vildCache) =>
    \A r \in Slots :
      /\ req[r].legs.inc /= Some(TableError)
      /\ req[r].legs.jam /= Some(TableError)

=============================================================================
